---- MODULE Spec2Model ----
(***************************************************************************)
(* A model of the rustpy interpreter core: the compiler that lowers an     *)
(* AST into bytecode chunks (src/src/compiler.rs), the chunk byte layout   *)
(* (src/src/chunk.rs, src/src/bytecode.rs), the globals symbol table       *)
(* (src/src/symbol_table.rs) and the stack VM (src/src/vm.rs), driven by   *)
(* Interpreter::run (src/src/lib.rs) from the AST of a program.            *)
(***************************************************************************)
EXTENDS Integers, Sequences, FiniteSets, TLC

(***************************************************************************)
(* Bounds of the model.                                                    *)
(***************************************************************************)
\* cap on the number of instruction fetches of one run (programs that never
\* terminate are cut here)
MaxSteps == 90

\* cap on the number of direct SymbolTable::insert calls
MaxInserts == 3

(***************************************************************************)
(* bytecode.rs: instruction sizes and opcodes.                             *)
(***************************************************************************)
SIZE_INSTRUCTION == 1
SIZE_INDEX == 8

Nop == 0
None == 1
True == 2
False == 3
Const == 4
Pop == 16
Not == 17
Neg == 18
SetGlobal == 32
GetGlobal == 33
SetLocal == 34
GetLocal == 35
Call == 48
Return == 49
Jump == 64
JumpIfFalse == 65
Loop == 66
And == 80
Or == 81
Equal == 82
NotEqual == 83
Less == 84
LessEqual == 85
Greater == 86
GreaterEqual == 87
Add == 89
Sub == 96
Mul == 97
Div == 98
Unknown == 255

\* Bytecode::try_from(u8) succeeds exactly on the declared discriminants
Bytecode ==
    {Nop, None, True, False, Const, Pop, Not, Neg, SetGlobal, GetGlobal,
     SetLocal, GetLocal, Call, Return, Jump, JumpIfFalse, Loop, And, Or,
     Equal, NotEqual, Less, LessEqual, Greater, GreaterEqual, Add, Sub, Mul,
     Div, Unknown}

(***************************************************************************)
(* function.rs                                                             *)
(***************************************************************************)
GLOBAL_SCOPE == "<main>"

(***************************************************************************)
(* Values and Objects (object.rs).  A Value is [t |-> variant, v |-> data]; *)
(* the payload of None/True/False is 0.                                    *)
(***************************************************************************)
Value_None == [t |-> "None", v |-> 0]
Value_True == [t |-> "True", v |-> 0]
Value_False == [t |-> "False", v |-> 0]
Value_Integer(n) == [t |-> "Integer", v |-> n]
Value_String(s) == [t |-> "String", v |-> s]
Value_Function(f) == [t |-> "Function", v |-> f]
Value_NativeFunction(f) == [t |-> "NativeFunction", v |-> f]

new_from_bool(b) == IF b THEN Value_True ELSE Value_False

is_truthy(value) ==
    CASE value.t = "None" -> FALSE
      [] value.t = "True" -> TRUE
      [] value.t = "False" -> FALSE
      [] value.t = "Integer" -> value.v # 0
      [] value.t = "String" -> value.v # ""
      [] OTHER -> TRUE

is_falsey(value) ==
    CASE value.t = "None" -> TRUE
      [] value.t = "True" -> FALSE
      [] value.t = "False" -> TRUE
      [] value.t = "Integer" -> value.v = 0
      [] value.t = "String" -> value.v = ""
      [] OTHER -> FALSE

\* derived PartialEq / PartialOrd of Value: the variant first, then the payload
VariantIndex(value) ==
    CASE value.t = "None" -> 0
      [] value.t = "True" -> 1
      [] value.t = "False" -> 2
      [] value.t = "Integer" -> 3
      [] value.t = "Float" -> 4
      [] value.t = "String" -> 5
      [] value.t = "Function" -> 6
      [] OTHER -> 7

value_eq(a, b) == a.t = b.t /\ a.v = b.v

value_lt(a, b) ==
    IF a.t # b.t THEN VariantIndex(a) < VariantIndex(b)
    ELSE IF a.t = "Integer" THEN a.v < b.v
    ELSE FALSE

\* DefaultHasher over a name or a value: an opaque u64, abstracted to one
\* number outside the range of symbol-table ids
hasher_finish == 1000000

new_with_id(id, name, value) == [id |-> id, name |-> name, value |-> value]
new_with_name(name, value) == [id |-> hasher_finish, name |-> name, value |-> value]
\* Object::new: id = hash(value), name = "$" + id
new(value) == [id |-> hasher_finish, name |-> "$", value |-> value]
new_none == [id |-> 0, name |-> "None", value |-> Value_None]
new_true == [id |-> 1, name |-> "True", value |-> Value_True]
new_false == [id |-> 2, name |-> "False", value |-> Value_False]

from_literal(literal) ==
    CASE literal.t = "None" -> new_none
      [] literal.t = "True" -> new_true
      [] literal.t = "False" -> new_false
      [] OTHER -> new(literal)

(***************************************************************************)
(* Chunk (chunk.rs): data is the byte vector; address a is data[a + 1].    *)
(***************************************************************************)
RECURSIVE to_ne_bytes_n(_, _)
to_ne_bytes_n(v, n) ==
    IF n = 0 THEN <<>> ELSE <<v % 256>> \o to_ne_bytes_n(v \div 256, n - 1)

\* u64::to_ne_bytes on a little-endian host
to_ne_bytes(v) == to_ne_bytes_n(v, SIZE_INDEX)

RECURSIVE from_ne_bytes(_)
from_ne_bytes(bytes) ==
    IF bytes = <<>> THEN 0 ELSE Head(bytes) + 256 * from_ne_bytes(Tail(bytes))

Chunk_new == [data |-> <<>>, constants |-> <<>>]

size(chunk) == Len(chunk.data)

\* the assertion of get_data_u64: index + 8 < data.len()
get_data_u64_ok(chunk, index) == index + 8 < Len(chunk.data)

get_data_u64(chunk, index) ==
    from_ne_bytes(SubSeq(chunk.data, index + 1, index + 8))

add_constant(chunk, literal) ==
    [chunk EXCEPT !.constants = Append(@, literal)]

emit(chunk, op) == [chunk EXCEPT !.data = Append(@, op)]

emit_index(chunk, index) == [chunk EXCEPT !.data = @ \o to_ne_bytes(index)]

\* variant of patch_jump_addr: the offset is counted from the operand, without
\* the + 1 for the opcode byte
patch_jump_addr_from_operand(chunk, jump_offset_addr, target_addr) ==
    LET offset == target_addr - jump_offset_addr
        index_bytes == to_ne_bytes(offset)
    IN  [chunk EXCEPT !.data =
            [i \in 1..Len(@) |->
                IF i > jump_offset_addr /\ i <= jump_offset_addr + 8
                THEN index_bytes[i - jump_offset_addr]
                ELSE @[i]]]

patch_jump_addr(chunk, jump_offset_addr, target_addr) ==
    LET offset == target_addr - jump_offset_addr + 1
        index_bytes == to_ne_bytes(offset)
    IN  [chunk EXCEPT !.data =
            [i \in 1..Len(@) |->
                IF i > jump_offset_addr /\ i <= jump_offset_addr + 8
                THEN index_bytes[i - jump_offset_addr]
                ELSE @[i]]]

(***************************************************************************)
(* Function (function.rs)                                                  *)
(***************************************************************************)
new_global_scope == [name |-> GLOBAL_SCOPE, arity |-> 0, chunk |-> Chunk_new]
Function_new(name) == [name |-> name, arity |-> 0, chunk |-> Chunk_new]
is_global_scope_fn(function) == function.name = GLOBAL_SCOPE

(***************************************************************************)
(* SymbolTable (symbol_table.rs): data maps an id to an Object.  The       *)
(* iteration order of the HashMap is not specified; iter_order picks it.   *)
(***************************************************************************)
SymbolTable_new == [data |-> <<>>, last_idx |-> 0]

st_contains(st, id) == id \in DOMAIN st.data

st_get(st, id) == st.data[id]

st_set(st, id, obj) ==
    [st EXCEPT !.data =
        [i \in DOMAIN st.data \cup {id} |-> IF i = id THEN obj ELSE st.data[i]]]

\* Option<Object>::None
NoObject == [id |-> 0, name |-> "", value |-> [t |-> "absent", v |-> 0]]

\* SymbolTable::insert(name, obj): the table after the call (the id returned
\* is its last_idx)
insert(st, name, obj) ==
    LET id == st.last_idx + 1
    IN  st_set([st EXCEPT !.last_idx = id], id,
               IF obj = NoObject THEN new_with_id(id, name, Value_None)
               ELSE [obj EXCEPT !.id = id])

\* insert(name, None): the placeholder object of a fresh id
st_insert(st, name) ==
    LET id == st.last_idx + 1
    IN  st_set([st EXCEPT !.last_idx = id], id, new_with_id(id, name, Value_None))

ids_named(st, name) == {i \in DOMAIN st.data : st.data[i].name = name}

contains_name(st, name) == ids_named(st, name) # {}

\* the first entry the iteration meets; 0 stands for unreachable!()
get_index(st, name, iter_order) ==
    LET ids == ids_named(st, name)
    IN  IF ids = {} THEN 0
        ELSE IF iter_order = "asc"
             THEN CHOOSE i \in ids : \A j \in ids : i <= j
             ELSE CHOOSE i \in ids : \A j \in ids : i >= j

(***************************************************************************)
(* AST (ast.rs).  An Expression is a record with its variant in k.         *)
(***************************************************************************)
Empty == [k |-> "Empty"]
Continue == [k |-> "Continue"]
Break == [k |-> "Break"]
Literal(value) == [k |-> "Literal", literal |-> value]
IntLit(n) == Literal(Value_Integer(n))
Variable(name) == [k |-> "Variable", name |-> name]
Unary(op, expr) == [k |-> "Unary", op |-> op, expr |-> expr]
Binary(lhs, op, rhs) == [k |-> "Binary", lhs |-> lhs, op |-> op, rhs |-> rhs]
Assignment(lhs, rhs) == [k |-> "Assignment", lhs |-> lhs, rhs |-> rhs]
Block(exprs) == [k |-> "Block", exprs |-> exprs]
ReturnExpr(expr) == [k |-> "Return", expr |-> expr]
CallExpr(callable, args) == [k |-> "Call", callable |-> callable, args |-> args]
Elif(condition, then_branch) ==
    [condition |-> condition, then_branch |-> then_branch]
If(condition, then_branch, elif_branches, else_branch) ==
    [k |-> "If", condition |-> condition, then_branch |-> then_branch,
     elif_branches |-> elif_branches, else_branch |-> else_branch]
While(condition, body) == [k |-> "While", condition |-> condition, body |-> body]
FunctionExpr(name, args, body) ==
    [k |-> "Function", name |-> name, args |-> args, body |-> body]

(***************************************************************************)
(* Compiler (compiler.rs).  The compiler state c carries the fields of     *)
(* Compiler, the Function being emitted into (the `function` parameter of  *)
(* every emit_* method), the pending error of the `?` chain, and the       *)
(* iteration order of the globals HashMap.                                 *)
(***************************************************************************)
NoErr == [kind |-> "", msg |-> ""]
NameNotFound(msg) == [kind |-> "NameNotFound", msg |-> msg]
InvalidExpression(msg) == [kind |-> "InvalidExpression", msg |-> msg]

IsOk(c) == c.err = NoErr

Compiler_new(globals, iter_order) ==
    [globals |-> globals, locals |-> <<>>, scope_depth |-> 0,
     continue_addr_stack |-> <<>>, break_addr_stack |-> <<>>,
     function |-> new_global_scope, err |-> NoErr, ord |-> iter_order]

\* function.chunk.emit(op)
c_emit(c, op) == [c EXCEPT !.function.chunk = emit(@, op)]
\* function.chunk.emit_index(index); the address returned is the size before
c_emit_index(c, index) == [c EXCEPT !.function.chunk = emit_index(@, index)]
c_size(c) == size(c.function.chunk)
c_patch(c, at, target) ==
    [c EXCEPT !.function.chunk = patch_jump_addr(@, at, target)]

is_global_scope(c) == c.scope_depth = 0

begin_scope(c) == [c EXCEPT !.scope_depth = @ + 1]

\* the index of the last local named identifier, 0 when there is none
\* (rposition; slot numbers are index - 1)
rposition(locals, identifier) ==
    LET hits == {i \in 1..Len(locals) : locals[i].name = identifier}
    IN  IF hits = {} THEN 0 ELSE CHOOSE i \in hits : \A j \in hits : i >= j

declare_local(c, identifier) ==
    [c EXCEPT !.locals = Append(@, [name |-> identifier, depth |-> c.scope_depth])]

RECURSIVE pop_locals(_)
pop_locals(c) ==
    IF c.locals # <<>> /\ c.locals[Len(c.locals)].depth > c.scope_depth
    THEN pop_locals([c_emit(c, Pop) EXCEPT
                        !.locals = SubSeq(@, 1, Len(@) - 1)])
    ELSE c

end_scope(c) == pop_locals([c EXCEPT !.scope_depth = @ - 1])

opcode_of(op) ==
    CASE op = "Not" -> Not
      [] op = "Neg" -> Neg
      [] op = "And" -> And
      [] op = "Or" -> Or
      [] op = "Equal" -> Equal
      [] op = "NotEqual" -> NotEqual
      [] op = "Less" -> Less
      [] op = "LessEqual" -> LessEqual
      [] op = "Greater" -> Greater
      [] op = "GreaterEqual" -> GreaterEqual
      [] op = "Add" -> Add
      [] op = "Sub" -> Sub
      [] op = "Mul" -> Mul
      [] op = "Div" -> Div

emit_op(c, op) == c_emit(c, opcode_of(op))

emit_literal(c, literal) ==
    CASE literal.t = "None" -> c_emit(c, None)
      [] literal.t = "True" -> c_emit(c, True)
      [] literal.t = "False" -> c_emit(c, False)
      [] OTHER ->
            LET index == Len(c.function.chunk.constants)
                c1 == [c EXCEPT !.function.chunk = add_constant(@, literal)]
            IN  c_emit_index(c_emit(c1, Const), index)

\* mutant of emit_variable_op: at global scope a name that is not in globals
\* is declared instead of rejected
emit_variable_op_declare(c, identifier) ==
    IF is_global_scope(c)
    THEN LET g == IF contains_name(c.globals, identifier) THEN c.globals
                  ELSE st_insert(c.globals, identifier)
         IN  c_emit_index(c_emit([c EXCEPT !.globals = g], GetGlobal),
                          get_index(g, identifier, c.ord))
    ELSE IF is_global_scope_fn(c.function) /\ contains_name(c.globals, identifier)
         THEN c_emit_index(c_emit(c, GetGlobal),
                           get_index(c.globals, identifier, c.ord))
         ELSE IF rposition(c.locals, identifier) # 0
         THEN c_emit_index(c_emit(c, GetLocal),
                           rposition(c.locals, identifier) - 1)
         ELSE IF c.function.name = identifier
         THEN c_emit_index(c_emit(c, GetGlobal),
                           get_index(c.globals, identifier, c.ord))
         ELSE [c EXCEPT !.err = NameNotFound("Name " \o identifier \o " not found")]

emit_variable_op(c, identifier) ==
    IF is_global_scope(c)
    THEN IF contains_name(c.globals, identifier)
         THEN c_emit_index(c_emit(c, GetGlobal),
                           get_index(c.globals, identifier, c.ord))
         ELSE [c EXCEPT !.err = NameNotFound("Name " \o identifier \o " not found")]
    ELSE IF is_global_scope_fn(c.function) /\ contains_name(c.globals, identifier)
         THEN c_emit_index(c_emit(c, GetGlobal),
                           get_index(c.globals, identifier, c.ord))
         ELSE IF rposition(c.locals, identifier) # 0
         THEN c_emit_index(c_emit(c, GetLocal),
                           rposition(c.locals, identifier) - 1)
         ELSE IF c.function.name = identifier
         THEN c_emit_index(c_emit(c, GetGlobal),
                           get_index(c.globals, identifier, c.ord))
         ELSE [c EXCEPT !.err = NameNotFound("Name " \o identifier \o " not found")]

emit_break_statement(c) ==
    LET c1 == c_emit(c, Jump)
        break_offset_addr == c_size(c1)
    IN  [c_emit_index(c1, 0) EXCEPT
            !.break_addr_stack = Append(@, break_offset_addr)]

\* mutant of emit_continue_statement: without a loop, continue loops to the
\* start of the chunk
emit_continue_statement_unchecked(c) ==
    c_emit_index(c_emit(c, Loop),
                 IF c.continue_addr_stack = <<>> THEN 0
                 ELSE c.continue_addr_stack[Len(c.continue_addr_stack)])

emit_continue_statement(c) ==
    IF c.continue_addr_stack = <<>>
    THEN [c EXCEPT !.err = InvalidExpression("continue without loop")]
    ELSE c_emit_index(c_emit(c, Loop),
                      c.continue_addr_stack[Len(c.continue_addr_stack)])

\* the assignment target, once the right-hand side has been emitted
emit_assignment_target(c, lhs) ==
    IF lhs.k # "Variable"
    THEN [c EXCEPT !.err = NameNotFound("Assignment must set a variable")]
    ELSE IF is_global_scope(c)
    THEN \* get_or_declare_global
         LET g == IF contains_name(c.globals, lhs.name) THEN c.globals
                  ELSE st_insert(c.globals, lhs.name)
             index == IF contains_name(c.globals, lhs.name)
                      THEN get_index(c.globals, lhs.name, c.ord)
                      ELSE g.last_idx
         IN  c_emit_index(c_emit([c EXCEPT !.globals = g], SetGlobal), index)
    ELSE IF is_global_scope_fn(c.function) /\ contains_name(c.globals, lhs.name)
    THEN c_emit_index(c_emit(c, SetGlobal),
                      get_index(c.globals, lhs.name, c.ord))
    ELSE \* get_or_declare_local
         LET c1 == IF rposition(c.locals, lhs.name) # 0 THEN c
                   ELSE declare_local(c, lhs.name)
             index == rposition(c1.locals, lhs.name) - 1
         IN  c_emit_index(c_emit(c1, SetLocal), index)

\* mutant of patch_breaks: every pending break is patched, those of the
\* enclosing loops too
RECURSIVE patch_breaks_all(_, _, _)
patch_breaks_all(c, start_break_addr_stack_size, exit_addr) ==
    IF Len(c.break_addr_stack) > 0
    THEN patch_breaks_all(
            [c_patch(c, c.break_addr_stack[Len(c.break_addr_stack)], exit_addr)
                EXCEPT !.break_addr_stack = SubSeq(@, 1, Len(@) - 1)],
            start_break_addr_stack_size, exit_addr)
    ELSE c

\* patch the break placeholders pushed since the loop began
RECURSIVE patch_breaks(_, _, _)
patch_breaks(c, start_break_addr_stack_size, exit_addr) ==
    IF Len(c.break_addr_stack) > start_break_addr_stack_size
    THEN patch_breaks(
            [c_patch(c, c.break_addr_stack[Len(c.break_addr_stack)], exit_addr)
                EXCEPT !.break_addr_stack = SubSeq(@, 1, Len(@) - 1)],
            start_break_addr_stack_size, exit_addr)
    ELSE c

RECURSIVE patch_exits(_, _, _)
patch_exits(c, exit_jump_addrs, next_addr) ==
    IF exit_jump_addrs = <<>> THEN c
    ELSE patch_exits(c_patch(c, Head(exit_jump_addrs), next_addr),
                     Tail(exit_jump_addrs), next_addr)

Reverse(s) == [i \in 1..Len(s) |-> s[Len(s) + 1 - i]]

RECURSIVE emit_expression(_, _)
RECURSIVE emit_each(_, _)
RECURSIVE emit_if_branch(_, _, _)
RECURSIVE emit_elif_branches(_, _, _)

\* try_for_each(|expr| self.emit_expression(function, expr))
emit_each(c, exprs) ==
    IF ~IsOk(c) \/ exprs = <<>> THEN c
    ELSE emit_each(emit_expression(c, Head(exprs)), Tail(exprs))

emit_block_expression(c, exprs) ==
    LET c1 == emit_each(begin_scope(c), exprs)
    IN  IF IsOk(c1) THEN end_scope(c1) ELSE c1

\* variant: the body is followed by an implicit `return None`
emit_function_expression_implicit_return(c, function_expression) ==
    LET RECURSIVE declare_args(_, _)
        declare_args(cc, args) ==
            IF args = <<>> THEN cc
            ELSE declare_args(declare_local(cc, Head(args)), Tail(args))
        c1 == [c EXCEPT !.function.arity = Len(function_expression.args)]
        c2 == emit_block_expression(declare_args(c1, function_expression.args),
                                    function_expression.body)
    IN  IF IsOk(c2) THEN c_emit(c_emit(c2, None), Return) ELSE c2

emit_function_expression(c, function_expression) ==
    LET RECURSIVE declare_args(_, _)
        declare_args(cc, args) ==
            IF args = <<>> THEN cc
            ELSE declare_args(declare_local(cc, Head(args)), Tail(args))
        c1 == [c EXCEPT !.function.arity = Len(function_expression.args)]
    IN  emit_block_expression(declare_args(c1, function_expression.args),
                              function_expression.body)

\* Expression::Function: reserve the name, compile the child, install it
emit_def(c, function_expression) ==
    LET name == function_expression.name
        g1 == st_insert(c.globals, name)
        function_id == g1.last_idx
        c1 == emit_function_expression(
                [c EXCEPT !.globals = g1, !.function = Function_new(name)],
                function_expression)
        function_object == new_with_name(name, Value_Function(c1.function))
    IN  IF IsOk(c1)
        THEN [c1 EXCEPT !.function = c.function,
                        !.globals = st_set(@, function_id, function_object)]
        ELSE [c1 EXCEPT !.function = c.function]

emit_call_expression(c, call_expression) ==
    LET c1 == emit_each(c, Reverse(call_expression.args))
        c2 == IF IsOk(c1) THEN emit_expression(c1, call_expression.callable)
              ELSE c1
    IN  IF IsOk(c2)
        THEN c_emit_index(c_emit(c2, Call), Len(call_expression.args))
        ELSE c2

\* mutant of emit_if_branch: the JumpIfFalse is patched to the exit Jump instead
\* of to the instruction after it
emit_if_branch_to_exit(c, condition, then_branch) ==
    LET c1 == emit_expression(c, condition)
        c2 == c_emit(c1, JumpIfFalse)
        jump_offset_addr == c_size(c2)
        c3 == emit_expression(c_emit_index(c2, 0), then_branch)
        c4 == c_emit(c3, Jump)
        exit_offset_addr == c_size(c4)
        c5 == c_emit_index(c4, 0)
    IN  IF ~IsOk(c1) THEN [c |-> c1, addr |-> 0]
        ELSE IF ~IsOk(c3) THEN [c |-> c3, addr |-> 0]
        ELSE [c |-> c_patch(c5, jump_offset_addr, c_size(c3)),
              addr |-> exit_offset_addr]

\* returns the state and the address of the exit Jump's operand
emit_if_branch(c, condition, then_branch) ==
    LET c1 == emit_expression(c, condition)
        c2 == c_emit(c1, JumpIfFalse)
        jump_offset_addr == c_size(c2)
        c3 == emit_expression(c_emit_index(c2, 0), then_branch)
        c4 == c_emit(c3, Jump)
        exit_offset_addr == c_size(c4)
        c5 == c_emit_index(c4, 0)
    IN  IF ~IsOk(c1) THEN [c |-> c1, addr |-> 0]
        ELSE IF ~IsOk(c3) THEN [c |-> c3, addr |-> 0]
        ELSE [c |-> c_patch(c5, jump_offset_addr, c_size(c5)),
              addr |-> exit_offset_addr]

\* returns the state and the exit addresses recorded so far
emit_elif_branches(c, elif_branches, exit_jump_addrs) ==
    IF ~IsOk(c) \/ elif_branches = <<>>
    THEN [c |-> c, addrs |-> exit_jump_addrs]
    ELSE LET r == emit_if_branch(c, Head(elif_branches).condition,
                                 Head(elif_branches).then_branch)
         IN  emit_elif_branches(r.c, Tail(elif_branches),
                                Append(exit_jump_addrs, r.addr))

emit_if_expression(c, if_expr) ==
    LET r1 == emit_if_branch(c, if_expr.condition, if_expr.then_branch)
        r2 == emit_elif_branches(r1.c, if_expr.elif_branches, <<r1.addr>>)
        c3 == IF IsOk(r2.c) THEN emit_expression(r2.c, if_expr.else_branch)
              ELSE r2.c
    IN  IF IsOk(c3) THEN patch_exits(c3, r2.addrs, c_size(c3)) ELSE c3

\* mutant of emit_while_expression: the start address is taken after the
\* condition, so Loop goes back to the body
emit_while_expression_loop_to_body(c, while_expr) ==
    LET c1 == [c EXCEPT !.continue_addr_stack = Append(@, c_size(c))]
        start_break_addr_stack_size == Len(c.break_addr_stack)
        c2 == emit_expression(c1, while_expr.condition)
        c3 == c_emit(c2, JumpIfFalse)
        jump_offset_addr == c_size(c3)
        start_addr == jump_offset_addr + SIZE_INDEX
        c4 == emit_expression(c_emit_index(c3, 0), while_expr.body)
        c5 == [c4 EXCEPT !.continue_addr_stack = SubSeq(@, 1, Len(@) - 1)]
        c6 == c_emit_index(c_emit(c5, Loop), start_addr)
        exit_addr == c_size(c6)
        c7 == c_patch(c6, jump_offset_addr, exit_addr)
    IN  IF ~IsOk(c2) THEN c2
        ELSE IF ~IsOk(c4) THEN c4
        ELSE patch_breaks(c7, start_break_addr_stack_size, exit_addr)

\* mutant of emit_while_expression: the loop's start address is left on
\* continue_addr_stack when the loop has been compiled
emit_while_expression_keep_continue(c, while_expr) ==
    LET start_addr == c_size(c)
        c1 == [c EXCEPT !.continue_addr_stack = Append(@, start_addr)]
        start_break_addr_stack_size == Len(c.break_addr_stack)
        c2 == emit_expression(c1, while_expr.condition)
        c3 == c_emit(c2, JumpIfFalse)
        jump_offset_addr == c_size(c3)
        c4 == emit_expression(c_emit_index(c3, 0), while_expr.body)
        c6 == c_emit_index(c_emit(c4, Loop), start_addr)
        exit_addr == c_size(c6)
        c7 == c_patch(c6, jump_offset_addr, exit_addr)
    IN  IF ~IsOk(c2) THEN c2
        ELSE IF ~IsOk(c4) THEN c4
        ELSE patch_breaks(c7, start_break_addr_stack_size, exit_addr)

emit_while_expression(c, while_expr) ==
    LET start_addr == c_size(c)
        c1 == [c EXCEPT !.continue_addr_stack = Append(@, start_addr)]
        start_break_addr_stack_size == Len(c.break_addr_stack)
        c2 == emit_expression(c1, while_expr.condition)
        c3 == c_emit(c2, JumpIfFalse)
        jump_offset_addr == c_size(c3)
        c4 == emit_expression(c_emit_index(c3, 0), while_expr.body)
        c5 == [c4 EXCEPT !.continue_addr_stack = SubSeq(@, 1, Len(@) - 1)]
        c6 == c_emit_index(c_emit(c5, Loop), start_addr)
        exit_addr == c_size(c6)
        c7 == c_patch(c6, jump_offset_addr, exit_addr)
    IN  IF ~IsOk(c2) THEN c2
        ELSE IF ~IsOk(c4) THEN c4
        ELSE patch_breaks(c7, start_break_addr_stack_size, exit_addr)

emit_return_expression(c, return_expression) ==
    LET c1 == IF return_expression.expr.k = "Empty" THEN c_emit(c, None)
              ELSE emit_expression(c, return_expression.expr)
    IN  IF IsOk(c1) THEN c_emit(c1, Return) ELSE c1

emit_assignment_op(c, assignment_expr) ==
    LET c1 == emit_expression(c, assignment_expr.rhs)
    IN  IF IsOk(c1) THEN emit_assignment_target(c1, assignment_expr.lhs) ELSE c1

emit_unary_op(c, unary_expr) ==
    LET c1 == emit_expression(c, unary_expr.expr)
    IN  IF IsOk(c1) THEN emit_op(c1, unary_expr.op) ELSE c1

emit_binary_op(c, binary_expr) ==
    LET c1 == emit_expression(c, binary_expr.lhs)
        c2 == IF IsOk(c1) THEN emit_expression(c1, binary_expr.rhs) ELSE c1
    IN  IF IsOk(c2) THEN emit_op(c2, binary_expr.op) ELSE c2

emit_expression(c, expr) ==
    CASE expr.k = "Function" -> emit_def(c, expr)
      [] expr.k = "Call" -> emit_call_expression(c, expr)
      [] expr.k = "Block" -> emit_block_expression(c, expr.exprs)
      [] expr.k = "If" -> emit_if_expression(c, expr)
      [] expr.k = "While" -> emit_while_expression(c, expr)
      [] expr.k = "Continue" -> emit_continue_statement(c)
      [] expr.k = "Break" -> emit_break_statement(c)
      [] expr.k = "Return" -> emit_return_expression(c, expr)
      [] expr.k = "Assignment" -> emit_assignment_op(c, expr)
      [] expr.k = "Unary" -> emit_unary_op(c, expr)
      [] expr.k = "Binary" -> emit_binary_op(c, expr)
      [] expr.k = "Variable" -> emit_variable_op(c, expr.name)
      [] expr.k = "Literal" -> emit_literal(c, expr.literal)
      [] expr.k = "Empty" -> c_emit(c, Nop)

\* Compiler::new(program, globals).compile(): the final compiler state; its
\* function is the <main> Function when err = NoErr
emit_program(stmts, globals, iter_order) ==
    LET c1 == emit_each(Compiler_new(globals, iter_order), stmts)
    IN  IF IsOk(c1) THEN c_emit(c1, Nop) ELSE c1

(***************************************************************************)
(* Disassembler (disassembler.rs).                                         *)
(***************************************************************************)
\* Disassembler::disassemble: the Instructions pushed by the first fuel
\* iterations of its while loop, each with the ip the iteration leaves in
\* next.  A byte that is no Bytecode is pushed as Unknown and the loop
\* continues without moving ip; Const, GetGlobal, Jump, JumpIfFalse and Loop
\* take their operand; every other opcode moves ip by SIZE_INSTRUCTION, and
\* Pop, SetLocal, GetLocal fall to the `_` arm and are pushed as Unknown
disassemble(chunk, fuel) ==
    LET iteration(ip) ==
            LET op == chunk.data[ip + 1]
            IN  IF op \notin Bytecode
                THEN [ip |-> ip, op |-> Unknown, index |-> <<>>, next |-> ip]
                ELSE IF op \in {Const, GetGlobal, Jump, JumpIfFalse, Loop}
                THEN [ip |-> ip, op |-> op,
                      index |-> IF ip + 1 + 8 <= Len(chunk.data)
                                THEN <<from_ne_bytes(SubSeq(chunk.data, ip + 2, ip + 9))>>
                                ELSE <<>>,
                      next |-> ip + SIZE_INSTRUCTION + SIZE_INDEX]
                ELSE IF op \in {Pop, SetLocal, GetLocal, Unknown}
                THEN [ip |-> ip, op |-> Unknown, index |-> <<>>,
                      next |-> ip + SIZE_INSTRUCTION]
                ELSE [ip |-> ip, op |-> op, index |-> <<>>,
                      next |-> ip + SIZE_INSTRUCTION]
        RECURSIVE loop(_, _)
        loop(ip, n) ==
            IF ip >= Len(chunk.data) \/ n = 0 THEN <<>>
            ELSE <<iteration(ip)>> \o loop(iteration(ip).next, n - 1)
    IN  loop(0, fuel)

(***************************************************************************)
(* Native functions (native.rs).                                           *)
(***************************************************************************)
\* usize::MAX, the arity of a variadic builtin: above every argument count
usize_MAX == 2147483647

\* impl Display for Value
to_string(value) ==
    CASE value.t = "None" -> "None"
      [] value.t = "True" -> "True"
      [] value.t = "False" -> "False"
      [] value.t = "Integer" -> ToString(value.v)
      [] value.t = "String" -> value.v
      [] value.t = "Function" ->
            "<function:" \o value.v.name \o ":" \o ToString(value.v.arity) \o ">"
      [] OTHER ->
            "<native:" \o value.v.name \o ":" \o ToString(value.v.arity) \o ">"

\* Vec<String>::join(sep)
RECURSIVE join(_, _)
join(strings, sep) ==
    IF strings = <<>> THEN ""
    ELSE IF Len(strings) = 1 THEN strings[1]
    ELSE strings[1] \o sep \o join(Tail(strings), sep)

\* a builtin's outcome: r is "ok" or "panic" (args[0] of an empty vector),
\* value the Object returned, lines what it printed
native_abs(args) ==
    IF args = <<>> THEN [r |-> "panic", value |-> new_none, lines |-> <<>>]
    ELSE LET v == args[1].value
         IN  [r |-> "ok",
              value |-> IF v.t = "Integer"
                        THEN new(Value_Integer(IF v.v < 0 THEN 0 - v.v ELSE v.v))
                        ELSE new(Value_Integer(0)),
              lines |-> <<>>]

native_print(args) ==
    [r |-> "ok", value |-> new_none,
     lines |-> <<join([i \in 1..Len(args) |-> to_string(args[i].value)], " ")>>]

\* name -> NativeFunction {name, arity}; the function is found by the name
init_native_function_registry ==
    [print |-> [name |-> "print", arity |-> usize_MAX],
     abs |-> [name |-> "abs", arity |-> 1]]

\* native_function.function.as_ref()(args)
native_function_call(native_function, args) ==
    IF native_function.name = "abs" THEN native_abs(args) ELSE native_print(args)

\* mutant of popped_args: the vector is filled from the bottom argument up
popped_args_bottom_first(s, args_count) ==
    [i \in 1..args_count |-> s[Len(s) - args_count + i]]

\* the arguments a native call pops: the top of the stack first
popped_args(s, args_count) == [i \in 1..args_count |-> s[Len(s) + 1 - i]]


(***************************************************************************)
(* VM value operations (vm.rs: logic_op, binary_op).                       *)
(***************************************************************************)
\* variant of logic_op: And / Or yield one of their operands
logic_op_operand(op, lhs, rhs) ==
    CASE op = And -> IF is_truthy(lhs.value) THEN rhs.value ELSE lhs.value
      [] op = Or -> IF is_truthy(lhs.value) THEN lhs.value ELSE rhs.value
      [] OTHER -> new_from_bool(value_eq(lhs.value, rhs.value))

logic_op(op, lhs, rhs) ==
    CASE op = And -> new_from_bool(is_truthy(lhs.value) /\ is_truthy(rhs.value))
      [] op = Or -> new_from_bool(is_truthy(lhs.value) \/ is_truthy(rhs.value))
      [] op = Equal -> new_from_bool(value_eq(lhs.value, rhs.value))
      [] op = NotEqual -> new_from_bool(~value_eq(lhs.value, rhs.value))
      [] op = Less -> new_from_bool(value_lt(lhs.value, rhs.value))
      [] op = LessEqual ->
            new_from_bool(value_lt(lhs.value, rhs.value)
                          \/ value_eq(lhs.value, rhs.value))
      [] op = Greater -> new_from_bool(value_lt(rhs.value, lhs.value))
      [] op = GreaterEqual ->
            new_from_bool(value_lt(rhs.value, lhs.value)
                          \/ value_eq(lhs.value, rhs.value))

\* i64 division truncates toward zero
trunc_div(a, b) ==
    IF (a >= 0) = (b >= 0)
    THEN (IF a >= 0 THEN a ELSE 0 - a) \div (IF b >= 0 THEN b ELSE 0 - b)
    ELSE 0 - ((IF a >= 0 THEN a ELSE 0 - a) \div (IF b >= 0 THEN b ELSE 0 - b))

\* mutant of binary_op: two Strings are concatenated whatever the operator
binary_op_concat_any(op, lhs, rhs) ==
    LET l == lhs.value
        r == rhs.value
        err == [r |-> "err", value |-> Value_None]
    IN  IF l.t = "Integer" /\ r.t = "Integer"
        THEN CASE op = Add -> [r |-> "ok", value |-> Value_Integer(l.v + r.v)]
               [] op = Sub -> [r |-> "ok", value |-> Value_Integer(l.v - r.v)]
               [] op = Mul -> [r |-> "ok", value |-> Value_Integer(l.v * r.v)]
               [] op = Div ->
                    IF r.v = 0 THEN [r |-> "panic", value |-> Value_None]
                    ELSE [r |-> "ok", value |-> Value_Integer(trunc_div(l.v, r.v))]
               [] OTHER -> err
        ELSE IF l.t = "String" /\ r.t = "String"
        THEN [r |-> "ok", value |-> Value_String(l.v \o r.v)]
        ELSE err
\* r is "ok" (value holds the result), "err" (InvalidOperand) or "panic"
\* (integer division by zero)
binary_op(op, lhs, rhs) ==
    LET l == lhs.value
        r == rhs.value
        err == [r |-> "err", value |-> Value_None]
    IN  IF l.t = "Integer" /\ r.t = "Integer"
        THEN CASE op = Add -> [r |-> "ok", value |-> Value_Integer(l.v + r.v)]
               [] op = Sub -> [r |-> "ok", value |-> Value_Integer(l.v - r.v)]
               [] op = Mul -> [r |-> "ok", value |-> Value_Integer(l.v * r.v)]
               [] op = Div ->
                    IF r.v = 0 THEN [r |-> "panic", value |-> Value_None]
                    ELSE [r |-> "ok", value |-> Value_Integer(trunc_div(l.v, r.v))]
               [] OTHER -> err
        ELSE IF l.t = "String" /\ r.t = "String"
        THEN IF op = Add THEN [r |-> "ok", value |-> Value_String(l.v \o r.v)]
             ELSE err
        ELSE err

\* Vec::resize(new_len, Object::new_none())
resize(s, new_len) ==
    [i \in 1..new_len |-> IF i <= Len(s) THEN s[i] ELSE new_none]

\* the index GetLocal / SetLocal use into the value stack for operand
\* stack_offset while frame is the current frame
local_index(frame, stack_offset) == stack_offset

\* mutant of callee_stack_size: the arguments are not counted as the callee's
callee_stack_size_no_args(stack_len, arity) == stack_len

\* Frame.stack_size of a callee, from the stack (callable already popped)
callee_stack_size(stack_len, arity) == stack_len - arity

(***************************************************************************)
(* The programs run.  Each is the AST the parser hands to the compiler.    *)
(***************************************************************************)
Ret0(name, value) ==
    FunctionExpr(name, <<>>, <<ReturnExpr(IntLit(value))>>)
Call0(name) == CallExpr(Variable(name), <<>>)
Call1(name, arg) == CallExpr(Variable(name), <<arg>>)
Set(name, expr) == Assignment(Variable(name), expr)

\* def double(n): return 2 * n
DefDouble ==
    FunctionExpr("double", <<"n">>,
                 <<ReturnExpr(Binary(IntLit(2), "Mul", Variable("n")))>>)

\* if c1(): x = b1()  elif c2(): x = b2()  elif c3(): x = b3()  else: x = b4()
\* with ci() returning ti
IfProgram(t1, t2, t3) ==
    <<Ret0("c1", t1), Ret0("c2", t2), Ret0("c3", t3),
      Ret0("b1", 1), Ret0("b2", 2), Ret0("b3", 3), Ret0("b4", 4),
      Set("x", IntLit(0)),
      If(Call0("c1"), Block(<<Set("x", Call0("b1"))>>),
         <<Elif(Call0("c2"), Block(<<Set("x", Call0("b2"))>>)),
           Elif(Call0("c3"), Block(<<Set("x", Call0("b3"))>>))>>,
         Block(<<Set("x", Call0("b4"))>>)),
      Variable("x")>>

\* i = 0; x = 0; while c(i): x = b(); i = i + 1   with c(n): n < limit
WhileProgram(limit) ==
    <<FunctionExpr("c", <<"n">>,
                   <<ReturnExpr(Binary(Variable("n"), "Less", IntLit(limit)))>>),
      Ret0("b", 7),
      Set("i", IntLit(0)), Set("x", IntLit(0)),
      While(Call1("c", Variable("i")),
            Block(<<Set("x", Call0("b")),
                    Set("i", Binary(Variable("i"), "Add", IntLit(1)))>>)),
      Variable("i")>>

BasePrograms ==
    [arith |->
        <<Binary(IntLit(1), "Add", Binary(IntLit(2), "Mul", IntLit(3)))>>,
     assign |->
        <<Set("x", IntLit(10)),
          Set("y", Binary(Variable("x"), "Add", IntLit(5))),
          Variable("y")>>,
     \* 5 ; x = 1
     expr_then_assign |-> <<IntLit(5), Set("x", IntLit(1))>>,
     \* 5 ; while False: None
     expr_then_while |->
        <<IntLit(5), While(Literal(Value_False), Block(<<Literal(Value_None)>>))>>,
     \* x = 1
     only_assign |-> <<Set("x", IntLit(1))>>,
     \* def double(n): return 2 * n ; double(10)
     double |-> <<DefDouble, Call1("double", IntLit(10))>>,
     \* def double(n): return 2 * n ; 1 + double(10)
     one_plus_double |->
        <<DefDouble, Binary(IntLit(1), "Add", Call1("double", IntLit(10)))>>,
     \* def sub(a, b): return a - b ; sub(5, 3)
     sub |->
        <<FunctionExpr("sub", <<"a", "b">>,
            <<ReturnExpr(Binary(Variable("a"), "Sub", Variable("b")))>>),
          CallExpr(Variable("sub"), <<IntLit(5), IntLit(3)>>)>>,
     \* def two(): return 1 + 1 ; def six(): return 6
     \* result = 1 ; result = two() ; result = result * six() ; result
     two_six |->
        <<FunctionExpr("two", <<>>,
            <<ReturnExpr(Binary(IntLit(1), "Add", IntLit(1)))>>),
          Ret0("six", 6),
          Set("result", IntLit(1)),
          Set("result", Call0("two")),
          Set("result", Binary(Variable("result"), "Mul", Call0("six"))),
          Variable("result")>>,
     \* def test(): True ; test()
     no_return |->
        <<FunctionExpr("test", <<>>, <<Literal(Value_True)>>), Call0("test")>>,
     \* def f(n):
     \*   if n <= 0: return 0
     \*   return f(n - 1)
     \* f(2)
     recurse |->
        <<FunctionExpr("f", <<"n">>,
            <<If(Binary(Variable("n"), "LessEqual", IntLit(0)),
                 Block(<<ReturnExpr(IntLit(0))>>), <<>>, Empty),
              ReturnExpr(Call1("f", Binary(Variable("n"), "Sub", IntLit(1))))>>),
          Call1("f", IntLit(2))>>,
     \* g = 5 ; def f(): return g ; f()
     read_global_in_fn |->
        <<Set("g", IntLit(5)),
          FunctionExpr("f", <<>>, <<ReturnExpr(Variable("g"))>>),
          Call0("f")>>,
     \* def a(): return 1 ; def b(): return a() ; b()
     call_earlier_fn |->
        <<Ret0("a", 1),
          FunctionExpr("b", <<>>, <<ReturnExpr(Call0("a"))>>),
          Call0("b")>>,
     \* g = 1 ; def f(): g = 2 ; return 0 ; f() ; g
     write_global_in_fn |->
        <<Set("g", IntLit(1)),
          FunctionExpr("f", <<>>, <<Set("g", IntLit(2)), ReturnExpr(IntLit(0))>>),
          Set("t", Call0("f")),
          Variable("g")>>,
     \* g = 1 ; if True: g = 2 ; g
     write_global_in_block |->
        <<Set("g", IntLit(1)),
          If(Literal(Value_True), Block(<<Set("g", IntLit(2))>>), <<>>, Empty),
          Variable("g")>>,
     \* test = 0
     \* while test < 20:
     \*   local1 = 10
     \*   test = local1 + test
     \* test
     local_in_loop |->
        <<Set("test", IntLit(0)),
          While(Binary(Variable("test"), "Less", IntLit(20)),
                Block(<<Set("local1", IntLit(10)),
                        Set("test", Binary(Variable("local1"), "Add",
                                           Variable("test")))>>)),
          Variable("test")>>,
     \* x = -3 ; !x
     neg_not |->
        <<Set("x", Unary("Neg", IntLit(3))), Unary("Not", Variable("x"))>>,
     \* def f(): return ; f()
     return_none |->
        <<FunctionExpr("f", <<>>, <<ReturnExpr(Empty)>>), Call0("f")>>]

\* def f(n):
\*   while n < 2: n = n + 1
\*   return n
\* f(0)
WhileInFunction ==
    <<FunctionExpr("f", <<"n">>,
        <<While(Binary(Variable("n"), "Less", IntLit(2)),
                Block(<<Set("n", Binary(Variable("n"), "Add", IntLit(1)))>>)),
          ReturnExpr(Variable("n"))>>),
      Call1("f", IntLit(0))>>

\* i = 0 ; x = 0
\* while c(i):            c(n): n < 2
\*   while t():           t(): 1
\*     if k(): break      k(): 1
\*     x = bad()
\*   x = after()
\*   i = i + 1
\* i
BreakInner ==
    <<FunctionExpr("c", <<"n">>,
                   <<ReturnExpr(Binary(Variable("n"), "Less", IntLit(2)))>>),
      Ret0("t", 1), Ret0("k", 1), Ret0("after", 8), Ret0("bad", 9),
      Set("i", IntLit(0)), Set("x", IntLit(0)),
      While(Call1("c", Variable("i")),
            Block(<<While(Call0("t"),
                          Block(<<If(Call0("k"), Block(<<Break>>), <<>>, Empty),
                                  Set("x", Call0("bad"))>>)),
                    Set("x", Call0("after")),
                    Set("i", Binary(Variable("i"), "Add", IntLit(1)))>>)),
      Variable("i")>>

\* i = 0 ; x = 0
\* while t():
\*   while c(i): i = i + 1      c(n): n < 1
\*   if k():
\*     if k2(): break
\*   x = bad()
\* x = after()
\* x
BreakOuter ==
    <<FunctionExpr("c", <<"n">>,
                   <<ReturnExpr(Binary(Variable("n"), "Less", IntLit(1)))>>),
      Ret0("t", 1), Ret0("k", 1), Ret0("k2", 1), Ret0("after", 8), Ret0("bad", 9),
      Set("i", IntLit(0)), Set("x", IntLit(0)),
      While(Call0("t"),
            Block(<<While(Call1("c", Variable("i")),
                          Block(<<Set("i", Binary(Variable("i"), "Add", IntLit(1)))>>)),
                    If(Call0("k"),
                       Block(<<If(Call0("k2"), Block(<<Break>>), <<>>, Empty)>>),
                       <<>>, Empty),
                    Set("x", Call0("bad"))>>)),
      Set("x", Call0("after")),
      Variable("x")>>

\* i = 0 ; x = 0
\* while t():
\*   if i >= 1: break
\*   while c(i): i = i + 1      c(n): n < 1
\*   x = mid()
\* x = after()
\* x
BreakBeforeInner ==
    <<FunctionExpr("c", <<"n">>,
                   <<ReturnExpr(Binary(Variable("n"), "Less", IntLit(1)))>>),
      Ret0("t", 1), Ret0("mid", 7), Ret0("after", 8),
      Set("i", IntLit(0)), Set("x", IntLit(0)),
      While(Call0("t"),
            Block(<<If(Binary(Variable("i"), "GreaterEqual", IntLit(1)),
                       Block(<<Break>>), <<>>, Empty),
                    While(Call1("c", Variable("i")),
                          Block(<<Set("i", Binary(Variable("i"), "Add", IntLit(1)))>>)),
                    Set("x", Call0("mid"))>>)),
      Set("x", Call0("after")),
      Variable("x")>>

\* test = 1
\* while test < 4:
\*   if test >= 2: break
\*   test = test + 1
\* test
BreakTest ==
    <<Set("test", IntLit(1)),
      While(Binary(Variable("test"), "Less", IntLit(4)),
            Block(<<If(Binary(Variable("test"), "GreaterEqual", IntLit(2)),
                       Block(<<Break>>), <<>>, Empty),
                    Set("test", Binary(Variable("test"), "Add", IntLit(1)))>>)),
      Variable("test")>>

ContinuePrograms ==
    [\* i = 0 ; x = 0
     \* while c(i):                   c(n): n < 2
     \*   i = i + 1
     \*   while f0(): x = inner()     f0(): False
     \*   if t(): continue
     \*   x = skipped()
     \* x = after()
     \* x
     continue_outer |->
        <<FunctionExpr("c", <<"n">>,
                       <<ReturnExpr(Binary(Variable("n"), "Less", IntLit(2)))>>),
          FunctionExpr("f0", <<>>, <<ReturnExpr(Literal(Value_False))>>),
          Ret0("t", 1), Ret0("inner", 6), Ret0("skipped", 7), Ret0("after", 8),
          Set("i", IntLit(0)), Set("x", IntLit(0)),
          While(Call1("c", Variable("i")),
                Block(<<Set("i", Binary(Variable("i"), "Add", IntLit(1))),
                        While(Call0("f0"), Block(<<Set("x", Call0("inner"))>>)),
                        If(Call0("t"), Block(<<Continue>>), <<>>, Empty),
                        Set("x", Call0("skipped"))>>)),
          Set("x", Call0("after")),
          Variable("x")>>,
     \* i = 0 ; j = 0 ; x = 0
     \* while c(i):                   c(n): n < 1
     \*   i = i + 1
     \*   j = 0
     \*   while j < 2:
     \*     j = j + 1
     \*     if t(): continue
     \*     x = skipped()
     \*   x = mid()
     \* x = after()
     \* x
     continue_inner |->
        <<FunctionExpr("c", <<"n">>,
                       <<ReturnExpr(Binary(Variable("n"), "Less", IntLit(1)))>>),
          Ret0("t", 1), Ret0("skipped", 6), Ret0("mid", 7), Ret0("after", 8),
          Set("i", IntLit(0)), Set("j", IntLit(0)), Set("x", IntLit(0)),
          While(Call1("c", Variable("i")),
                Block(<<Set("i", Binary(Variable("i"), "Add", IntLit(1))),
                        Set("j", IntLit(0)),
                        While(Binary(Variable("j"), "Less", IntLit(2)),
                              Block(<<Set("j", Binary(Variable("j"), "Add", IntLit(1))),
                                      If(Call0("t"), Block(<<Continue>>), <<>>, Empty),
                                      Set("x", Call0("skipped"))>>)),
                        Set("x", Call0("mid"))>>)),
          Set("x", Call0("after")),
          Variable("x")>>,
     \* test = 1
     \* while test < 4:
     \*   if test == 2:
     \*     test = 20
     \*     continue
     \*   test = test + 1
     \* test
     continue_test |->
        <<Set("test", IntLit(1)),
          While(Binary(Variable("test"), "Less", IntLit(4)),
                Block(<<If(Binary(Variable("test"), "Equal", IntLit(2)),
                           Block(<<Set("test", IntLit(20)), Continue>>), <<>>, Empty),
                        Set("test", Binary(Variable("test"), "Add", IntLit(1)))>>)),
          Variable("test")>>]

\* programs that call the builtins
NativePrograms ==
    [\* abs(-3)
     abs_neg3 |-> <<Call1("abs", Unary("Neg", IntLit(3)))>>,
     \* 10 + abs(-3)
     ten_plus_abs |->
        <<Binary(IntLit(10), "Add", Call1("abs", Unary("Neg", IntLit(3))))>>,
     \* print(1, 2)
     print_two |-> <<CallExpr(Variable("print"), <<IntLit(1), IntLit(2)>>)>>,
     \* 7 + print(1, 2, 3)
     print_three |->
        <<Binary(IntLit(7), "Add",
                 CallExpr(Variable("print"), <<IntLit(1), IntLit(2), IntLit(3)>>))>>,
     \* print()
     print_nothing |-> <<Call0("print")>>,
     \* abs(1, 2)
     abs_two |-> <<CallExpr(Variable("abs"), <<IntLit(1), IntLit(2)>>)>>,
     \* abs()
     abs_nothing |-> <<Call0("abs")>>]

\* programs the compiler or the VM rejects, each beside one it accepts
ErrorPrograms ==
    [\* y
     undefined_name |-> <<Variable("y")>>,
     \* x = 1 ; y
     undefined_after |-> <<Set("x", IntLit(1)), Variable("y")>>,
     \* x = 4 ; y = 5 ; x
     two_globals |-> <<Set("x", IntLit(4)), Set("y", IntLit(5)), Variable("x")>>,
     \* continue
     continue_no_loop |-> <<Continue>>,
     \* x = 0 ; while x < 1: x = x + 1 ; continue
     continue_after_loop |->
        <<Set("x", IntLit(0)),
          While(Binary(Variable("x"), "Less", IntLit(1)),
                Block(<<Set("x", Binary(Variable("x"), "Add", IntLit(1)))>>)),
          Continue>>,
     \* def f(): while False: 1 ; continue
     continue_in_fn_after_loop |->
        <<FunctionExpr("f", <<>>,
                       <<While(Literal(Value_False), Block(<<IntLit(1)>>)),
                         Continue,
                         ReturnExpr(IntLit(0))>>),
          Call0("f")>>,
     \* 1 = 2
     assign_to_literal |-> <<Assignment(IntLit(1), IntLit(2))>>,
     \* x = 1 ; x + 1 = 2
     assign_to_binary |->
        <<Set("x", IntLit(1)),
          Assignment(Binary(Variable("x"), "Add", IntLit(1)), IntLit(2))>>,
     \* def f(a): return a ; f()
     too_few_args |->
        <<FunctionExpr("f", <<"a">>, <<ReturnExpr(Variable("a"))>>), Call0("f")>>,
     \* def g(): return 1 ; 3 + g(5)
     too_many_args |->
        <<Ret0("g", 1), Binary(IntLit(3), "Add", Call1("g", IntLit(5)))>>,
     \* x = 5 ; x()
     call_integer |-> <<Set("x", IntLit(5)), Call0("x")>>,
     \* def n(): return ; x = n() ; 1 + x(2)
     call_none |->
        <<FunctionExpr("n", <<>>, <<ReturnExpr(Empty)>>),
          Set("x", Call0("n")),
          Binary(IntLit(1), "Add", Call1("x", IntLit(2)))>>,
     \* s = "a" ; s()
     call_string |-> <<Set("s", Literal(Value_String("a"))), Call0("s")>>,
     \* def f(): x = 1 ; f()
     fn_ends_in_assignment |->
        <<FunctionExpr("f", <<>>, <<Set("x", IntLit(1))>>), Call0("f")>>,
     \* def f(): if False: return 1 ; f()
     fn_returns_on_one_path |->
        <<FunctionExpr("f", <<>>,
                       <<If(Literal(Value_False), Block(<<ReturnExpr(IntLit(1))>>),
                            <<>>, Empty)>>),
          Call0("f")>>,
     \* 1 + "a"
     add_int_str |-> <<Binary(IntLit(1), "Add", Literal(Value_String("a")))>>,
     \* "a" + 1
     add_str_int |-> <<Binary(Literal(Value_String("a")), "Add", IntLit(1))>>,
     \* "a" - "b"
     sub_str_str |->
        <<Binary(Literal(Value_String("a")), "Sub", Literal(Value_String("b")))>>,
     \* "a" + "b"
     add_str_str |->
        <<Binary(Literal(Value_String("a")), "Add", Literal(Value_String("b")))>>,
     \* 4 + (None + 1)
     add_none_int |->
        <<Binary(IntLit(4), "Add", Binary(Literal(Value_None), "Add", IntLit(1)))>>,
     \* 2 * True
     mul_int_true |-> <<Binary(IntLit(2), "Mul", Literal(Value_True))>>,
     \* False / 2
     div_false_int |-> <<Binary(Literal(Value_False), "Div", IntLit(2))>>,
     \* def f(): return 1 ; f + 1
     add_fn_int |-> <<Ret0("f", 1), Binary(Variable("f"), "Add", IntLit(1))>>,
     \* 7 / 2 - 1
     div_sub |->
        <<Binary(Binary(IntLit(7), "Div", IntLit(2)), "Sub", IntLit(1))>>]

\* the truthiness (1) or falsiness (0) of c1, c2, c3 in each if program
IfCases ==
    [if000 |-> <<0, 0, 0>>, if001 |-> <<0, 0, 1>>, if010 |-> <<0, 1, 0>>,
     if011 |-> <<0, 1, 1>>, if100 |-> <<1, 0, 0>>, if101 |-> <<1, 0, 1>>,
     if110 |-> <<1, 1, 0>>, if111 |-> <<1, 1, 1>>]

\* the limit of c in each while program
WhileCases == [while0 |-> 0, while1 |-> 1, while2 |-> 2]

\* programs about the globals table across defs and runs
EdgePrograms ==
    LET \* def l(): return lv ; def r(): return rv ; l() op r()
        Logic(op, lv, rv) ==
            <<Ret0("l", lv), Ret0("r", rv), Binary(Call0("l"), op, Call0("r"))>>
    IN
    [and_00 |-> Logic("And", 0, 0), and_07 |-> Logic("And", 0, 7),
     and_50 |-> Logic("And", 5, 0), and_57 |-> Logic("And", 5, 7),
     or_00 |-> Logic("Or", 0, 0), or_07 |-> Logic("Or", 0, 7),
     or_50 |-> Logic("Or", 5, 0), or_57 |-> Logic("Or", 5, 7),
     \* def f(): return 1 ; def f(): return 2 ; f()
     def_twice |-> <<Ret0("f", 1), Ret0("f", 2), Call0("f")>>,
     \* x = 1 ; def x(): return 2 ; x
     def_over_global |-> <<Set("x", IntLit(1)), Ret0("x", 2), Variable("x")>>,
     \* x = 7
     set_x |-> <<Set("x", IntLit(7))>>,
     \* x
     read_x |-> <<Variable("x")>>,
     \* def f(): 5 ; f()
     fn_literal |-> <<FunctionExpr("f", <<>>, <<IntLit(5)>>), Call0("f")>>,
     \* def f(): 1 + 1 ; 10 + f()
     fn_binary |->
        <<FunctionExpr("f", <<>>, <<Binary(IntLit(1), "Add", IntLit(1))>>),
          Binary(IntLit(10), "Add", Call0("f"))>>,
     \* g = 5 ; def f(): g ; f()
     fn_global_read |->
        <<Set("g", IntLit(5)), FunctionExpr("f", <<>>, <<Variable("g")>>),
          Call0("f")>>,
     \* def six(): return 6 ; def f(): six() ; f()
     fn_call |->
        <<Ret0("six", 6), FunctionExpr("f", <<>>, <<Call0("six")>>), Call0("f")>>,
     \* def a(p): return p ; def b(q): return q ; b(7)
     two_param_fns |->
        <<FunctionExpr("a", <<"p">>, <<ReturnExpr(Variable("p"))>>),
          FunctionExpr("b", <<"q">>, <<ReturnExpr(Variable("q"))>>),
          Call1("b", IntLit(7))>>,
     \* def a(p): return p ; def c(): return p ; c()
     leaked_param |->
        <<FunctionExpr("a", <<"p">>, <<ReturnExpr(Variable("p"))>>),
          FunctionExpr("c", <<>>, <<ReturnExpr(Variable("p"))>>),
          Call0("c")>>,
     \* if True: a = 1
     local_once |->
        <<If(Literal(Value_True), Block(<<Set("a", IntLit(1))>>), <<>>, Empty)>>,
     \* if True: a = 1 ; a = 2
     local_twice |->
        <<If(Literal(Value_True),
             Block(<<Set("a", IntLit(1)), Set("a", IntLit(2))>>), <<>>, Empty)>>,
     \* i = 0
     \* while i < 2:
     \*   a = 1 ; a = 2 ; i = i + 1
     local_twice_in_loop |->
        <<Set("i", IntLit(0)),
          While(Binary(Variable("i"), "Less", IntLit(2)),
                Block(<<Set("a", IntLit(1)), Set("a", IntLit(2)),
                        Set("i", Binary(Variable("i"), "Add", IntLit(1)))>>))>>,
     \* def f(): while False: True ; f()
     fn_while_last |->
        <<FunctionExpr("f", <<>>,
                       <<While(Literal(Value_False), Block(<<Literal(Value_True)>>))>>),
          Call0("f")>>,
     \* def f(): if True: True ; f()
     fn_if_last |->
        <<FunctionExpr("f", <<>>,
                       <<If(Literal(Value_True), Block(<<Literal(Value_True)>>),
                            <<>>, Empty)>>),
          Call0("f")>>,
     \* 5()
     call_literal |-> <<CallExpr(IntLit(5), <<>>)>>,
     \* (1 + 1)()
     call_expression |-> <<CallExpr(Binary(IntLit(1), "Add", IntLit(1)), <<>>)>>,
     \* def f(g): return g() ; f(5)
     call_param |->
        <<FunctionExpr("f", <<"g">>, <<ReturnExpr(Call0("g"))>>),
          Call1("f", IntLit(5))>>,
     \* def f(): return ; 5 + f()
     pending_plus_bare_return |->
        <<FunctionExpr("f", <<>>, <<ReturnExpr(Empty)>>),
          Binary(IntLit(5), "Add", Call0("f"))>>,
     \* def f(): x = 1 ; 5 + f()
     pending_plus_local |->
        <<FunctionExpr("f", <<>>, <<Set("x", IntLit(1))>>),
          Binary(IntLit(5), "Add", Call0("f"))>>,
     \* a = 1 ; b = 2 ; c = 3 ; d = 4 ; e = 5
     five_globals |->
        <<Set("a", IntLit(1)), Set("b", IntLit(2)), Set("c", IntLit(3)),
          Set("d", IntLit(4)), Set("e", IntLit(5))>>,
     \* break
     break_no_loop |-> <<Break>>,
     \* def f(): x = 1 ; return 2
     \* 5 + f()
     pending_plus_local_return |->
        <<FunctionExpr("f", <<>>, <<Set("x", IntLit(1)), ReturnExpr(IntLit(2))>>),
          Binary(IntLit(5), "Add", Call0("f"))>>,
     \* def f(n):
     \*   if n:
     \*     n = 0
     \*     return f(5)
     \*   return 1 + "a"
     \* f(1)
     nested_error |->
        <<FunctionExpr("f", <<"n">>,
            <<If(Variable("n"),
                 Block(<<Set("n", IntLit(0)), ReturnExpr(Call1("f", IntLit(5)))>>),
                 <<>>, Empty),
              ReturnExpr(Binary(IntLit(1), "Add", Literal(Value_String("a"))))>>),
          Call1("f", IntLit(1))>>,
     \* 7 / 0
     div_zero |-> <<Binary(IntLit(7), "Div", IntLit(0))>>,
     \* x = 0 ; 1 + 7 / x
     div_zero_global |->
        <<Set("x", IntLit(0)),
          Binary(IntLit(1), "Add", Binary(IntLit(7), "Div", Variable("x")))>>]

Programs ==
    BasePrograms
    @@ [p \in DOMAIN IfCases |->
            IfProgram(IfCases[p][1], IfCases[p][2], IfCases[p][3])]
    @@ [p \in DOMAIN WhileCases |-> WhileProgram(WhileCases[p])]
    @@ [while_in_fn |-> WhileInFunction, break_inner |-> BreakInner,
        break_outer |-> BreakOuter, break_before_inner |-> BreakBeforeInner,
        break_test |-> BreakTest]
    @@ ContinuePrograms
    @@ NativePrograms
    @@ ErrorPrograms
    @@ EdgePrograms

ProgramIds == DOMAIN Programs

\* the sequences of programs handed to run on one Interpreter
Sessions ==
    {<<p>> : p \in ProgramIds}
    \cup {<<"set_x", "read_x">>,
          <<"set_x", "undefined_name", "read_x">>,
          <<"set_x", "add_int_str", "read_x">>,
          <<"two_six", "two_six">>}

(***************************************************************************)
(* The interpreter state (lib.rs Interpreter, vm.rs Vm).                   *)
(***************************************************************************)
VARIABLES
    globals,     \* Interpreter.globals
    stack,       \* Vm.stack
    frames,      \* Vm.frames: [function, stack_size, ip]
    state,       \* "ready", "running" (inside Vm::interpret), "returned", "aborted" (panic),
                 \* "exited" (repl has returned)
    result,      \* what the last run returned
    log,         \* the instruction fetches of the current run (trace! of vm.rs)
    session,     \* the programs this interpreter is given
    run_idx,     \* how many of them have been started
    iter_order,  \* the iteration order of the globals HashMap
    stdout,      \* the lines println! has written
    call,        \* the last direct SymbolTable call: its arguments and what it returned
    stdin        \* the lines standard input still holds: [text, continued]

vars ==
    <<globals, stack, frames, state, result, log, session, run_idx, iter_order,
      stdout, call, stdin>>

NoCall == [op |-> "", name |-> "", obj |-> NoObject, ret |-> 0]
NoResult == [kind |-> "", value |-> Value_None, err |-> "", msg |-> ""]
ResultOk(value) == [kind |-> "Ok", value |-> value, err |-> "", msg |-> ""]
ResultCompilerError(e) ==
    [kind |-> "CompilerError", value |-> Value_None, err |-> e.kind, msg |-> e.msg]
ResultVmError(e) ==
    [kind |-> "VmError", value |-> Value_None, err |-> e, msg |-> ""]

\* main with a PATH: the exit code of the process once exec has handed
\* run_result, the result of Interpreter::run, back.  exec logs either arm of
\* its match and returns Ok(()); main passes an Err on with `?` and returns
\* Ok(()) otherwise; the runtime exits with 0 for Ok and 1 for Err
main(run_result) ==
    LET exec == IF run_result.kind = "Ok" THEN "Ok" ELSE "Ok"
    IN  IF exec = "Ok" THEN 0 ELSE 1

\* Interpreter::new
Init ==
    /\ globals = SymbolTable_new
    /\ stack = <<>>
    /\ frames = <<>>
    /\ state = "ready"
    /\ result = NoResult
    /\ log = <<>>
    /\ session \in Sessions
    /\ run_idx = 0
    /\ iter_order \in {"asc", "desc"}
    /\ stdout = <<>>
    /\ call = NoCall
    /\ stdin = <<>>

\* the startup the specification describes (4.5 Native Registry): globals
\* holds one Object per builtin of the registry, entered in the order names
RECURSIVE populate_globals(_, _)
populate_globals(st, names) ==
    IF names = <<>> THEN st
    ELSE LET st1 == st_insert(st, Head(names))
         IN  populate_globals(
                st_set(st1, st1.last_idx,
                       new_with_name(Head(names),
                                     Value_NativeFunction(
                                        init_native_function_registry[Head(names)]))),
                Tail(names))

\* an Interpreter whose globals hold the builtins
InitNative ==
    /\ globals \in {populate_globals(SymbolTable_new, <<"print", "abs">>),
                    populate_globals(SymbolTable_new, <<"abs", "print">>)}
    /\ stack = <<>>
    /\ frames = <<>>
    /\ state = "ready"
    /\ result = NoResult
    /\ log = <<>>
    /\ session \in Sessions
    /\ run_idx = 0
    /\ iter_order \in {"asc", "desc"}
    /\ stdout = <<>>
    /\ call = NoCall
    /\ stdin = <<>>

Env == UNCHANGED <<session, run_idx, iter_order, call, stdin>>

\* Interpreter::run up to the first instruction: compile, then Vm::init
run(program) ==
    LET c == emit_program(program, globals, iter_order)
    IN  /\ globals' = c.globals
        /\ log' = <<>>
        /\ stack' = <<>>
        /\ IF IsOk(c)
           THEN /\ frames' = <<[function |-> c.function, stack_size |-> 0, ip |-> 0]>>
                /\ state' = "running"
                /\ result' = NoResult
           ELSE /\ frames' = frames
                /\ state' = "returned"
                /\ result' = ResultCompilerError(c.err)

\* one call of Interpreter::run, on the next program of the session
Run ==
    /\ state \in {"ready", "returned"}
    /\ run_idx < Len(session)
    /\ run_idx' = run_idx + 1
    /\ run(Programs[session[run_idx + 1]])
    /\ UNCHANGED <<session, iter_order, stdout, call, stdin>>

(***************************************************************************)
(* Vm::interpret_function: one action per match arm.                       *)
(***************************************************************************)
current_frame == frames[Len(frames)]
chunk == current_frame.function.chunk
ip == current_frame.ip
operand == get_data_u64(chunk, ip + SIZE_INSTRUCTION)
operand_ok == get_data_u64_ok(chunk, ip + SIZE_INSTRUCTION)
top == stack[Len(stack)]
pop(s) == SubSeq(s, 1, Len(s) - 1)

\* the loop condition, get_opcode and the trace of the fetch
Fetch(ops) ==
    /\ state = "running"
    /\ frames # <<>>
    /\ ip < Len(chunk.data)
    /\ chunk.data[ip + 1] \in ops
    /\ Len(log) < MaxSteps
    /\ log' = Append(log, [fn |-> current_frame.function.name, ip |-> ip,
                           op |-> chunk.data[ip + 1], depth |-> Len(frames)])
    /\ Env

set_ip(addr) == [frames EXCEPT ![Len(frames)].ip = addr]
incr_ip(offset) == set_ip(ip + offset)

\* the next iteration of the loop, after lines have been written to stdout
GoOut(new_stack, new_frames, lines) ==
    /\ stack' = new_stack
    /\ frames' = new_frames
    /\ state' = "running"
    /\ stdout' = stdout \o lines
    /\ UNCHANGED <<globals, result>>

Go(new_stack, new_frames) == GoOut(new_stack, new_frames, <<>>)

\* a panic: the process aborts
Abort ==
    /\ state' = "aborted"
    /\ UNCHANGED <<globals, stack, frames, result, stdout>>

\* variant of Fail: the error also discards the globals
Fail_dropping_globals(err) ==
    /\ state' = "returned"
    /\ result' = ResultVmError(err)
    /\ stack' = <<>>
    /\ frames' = <<>>
    /\ globals' = SymbolTable_new
    /\ UNCHANGED stdout

\* variant of Fail: the error is returned without tear_down
Fail_without_tear_down(err) ==
    /\ state' = "returned"
    /\ result' = ResultVmError(err)
    /\ UNCHANGED <<globals, stack, frames, stdout>>

\* Err(err) out of interpret_function: tear_down and return it
Fail(err) ==
    /\ state' = "returned"
    /\ result' = ResultVmError(err)
    /\ stack' = <<>>
    /\ frames' = <<>>
    /\ UNCHANGED <<globals, stdout>>

\* Ok(ret_val) out of interpret_function: the frame is gone, the stack is
\* resized to its stack_size and interpret pushes ret_val
ReturnToInterpret(ret_val, rest) ==
    Go(Append(resize(rest, current_frame.stack_size), ret_val), pop(frames))

StepNop == Fetch({Nop}) /\ Go(stack, incr_ip(SIZE_INSTRUCTION))

StepNone == Fetch({None}) /\ Go(Append(stack, new_none), incr_ip(SIZE_INSTRUCTION))

StepTrue == Fetch({True}) /\ Go(Append(stack, new_true), incr_ip(SIZE_INSTRUCTION))

StepFalse == Fetch({False}) /\ Go(Append(stack, new_false), incr_ip(SIZE_INSTRUCTION))

StepConst ==
    /\ Fetch({Const})
    /\ IF ~operand_ok \/ operand >= Len(chunk.constants) THEN Abort
       ELSE Go(Append(stack, from_literal(chunk.constants[operand + 1])),
               incr_ip(SIZE_INSTRUCTION + SIZE_INDEX))

StepPop ==
    /\ Fetch({Pop})
    /\ IF stack = <<>> THEN Abort
       ELSE Go(pop(stack), incr_ip(SIZE_INSTRUCTION))

StepGetGlobal ==
    /\ Fetch({GetGlobal})
    /\ IF ~operand_ok THEN Abort
       ELSE IF ~st_contains(globals, operand) THEN Fail("UndefinedName")
       ELSE Go(Append(stack, st_get(globals, operand)),
               incr_ip(SIZE_INSTRUCTION + SIZE_INDEX))

StepSetGlobal ==
    /\ Fetch({SetGlobal})
    /\ IF ~operand_ok \/ stack = <<>> \/ ~st_contains(globals, operand) THEN Abort
       ELSE /\ globals' = [globals EXCEPT !.data[operand].value = top.value]
            /\ stack' = pop(stack)
            /\ frames' = incr_ip(SIZE_INSTRUCTION + SIZE_INDEX)
            /\ state' = "running"
            /\ UNCHANGED <<result, stdout>>

StepGetLocal ==
    /\ Fetch({GetLocal})
    /\ IF ~operand_ok \/ local_index(current_frame, operand) >= Len(stack) THEN Abort
       ELSE Go(Append(stack, stack[local_index(current_frame, operand) + 1]),
               incr_ip(SIZE_INSTRUCTION + SIZE_INDEX))

StepSetLocal ==
    /\ Fetch({SetLocal})
    /\ IF ~operand_ok \/ stack = <<>>
          \/ local_index(current_frame, operand) >= Len(stack) THEN Abort
       ELSE Go([stack EXCEPT ![local_index(current_frame, operand) + 1] = top],
               incr_ip(SIZE_INSTRUCTION + SIZE_INDEX))

\* mutant of wrong_argument_count: only an excess of arguments is rejected
wrong_argument_count_only_excess(callee, args_count) ==
    IF callee.t = "Function" THEN args_count > callee.v.arity
    ELSE callee.v.arity < usize_MAX /\ args_count > callee.v.arity

\* the arity checks of Call, for a callee that is a Function or a NativeFunction
wrong_argument_count(callee, args_count) ==
    IF callee.t = "Function" THEN args_count # callee.v.arity
    ELSE callee.v.arity < usize_MAX /\ args_count # callee.v.arity

\* mutant of StepCall: a callable that is no function ends the run with
\* UndefinedName, as a missing global does
StepCall_undefined_name ==
    /\ Fetch({Call})
    /\ IF ~operand_ok \/ stack = <<>> \/ ~contains_name(globals, top.name) THEN Abort
       ELSE LET args_count == operand
                callable == top
                rest == pop(stack)
                function_obj ==
                    st_get(globals, get_index(globals, callable.name, iter_order))
                function == function_obj.value.v
            IN  IF function_obj.value.t = "Function"
                THEN IF wrong_argument_count(function_obj.value, args_count)
                     THEN Fail("WrongArgumentCount")
                     ELSE IF callee_stack_size(Len(rest), function.arity) < 0 THEN Abort
                     ELSE Go(rest,
                             Append(incr_ip(SIZE_INSTRUCTION + SIZE_INDEX),
                                    [function |-> function,
                                     stack_size |->
                                        callee_stack_size(Len(rest), function.arity),
                                     ip |-> 0]))
                ELSE IF function_obj.value.t = "NativeFunction"
                THEN IF wrong_argument_count(function_obj.value, args_count)
                     THEN Fail("WrongArgumentCount")
                     ELSE IF args_count > Len(rest) THEN Abort
                     ELSE LET out == native_function_call(
                                        function, popped_args(rest, args_count))
                          IN  IF out.r = "panic" THEN Abort
                              ELSE GoOut(Append(SubSeq(rest, 1, Len(rest) - args_count),
                                                out.value),
                                         incr_ip(SIZE_INSTRUCTION + SIZE_INDEX),
                                         out.lines)
                ELSE Fail("UndefinedName")

StepCall ==
    /\ Fetch({Call})
    /\ IF ~operand_ok \/ stack = <<>> \/ ~contains_name(globals, top.name) THEN Abort
       ELSE LET args_count == operand
                callable == top
                rest == pop(stack)
                function_obj ==
                    st_get(globals, get_index(globals, callable.name, iter_order))
                function == function_obj.value.v
            IN  IF function_obj.value.t = "Function"
                THEN IF wrong_argument_count(function_obj.value, args_count)
                     THEN Fail("WrongArgumentCount")
                     ELSE IF callee_stack_size(Len(rest), function.arity) < 0 THEN Abort
                     ELSE Go(rest,
                             Append(incr_ip(SIZE_INSTRUCTION + SIZE_INDEX),
                                    [function |-> function,
                                     stack_size |->
                                        callee_stack_size(Len(rest), function.arity),
                                     ip |-> 0]))
                ELSE IF function_obj.value.t = "NativeFunction"
                THEN IF wrong_argument_count(function_obj.value, args_count)
                     THEN Fail("WrongArgumentCount")
                     ELSE IF args_count > Len(rest) THEN Abort
                     ELSE LET out == native_function_call(
                                        function, popped_args(rest, args_count))
                          IN  IF out.r = "panic" THEN Abort
                              ELSE GoOut(Append(SubSeq(rest, 1, Len(rest) - args_count),
                                                out.value),
                                         incr_ip(SIZE_INSTRUCTION + SIZE_INDEX),
                                         out.lines)
                ELSE Fail("InvalidOperand")

StepReturn ==
    /\ Fetch({Return})
    /\ IF stack = <<>> THEN Abort
       ELSE ReturnToInterpret(top, pop(stack))

StepJump ==
    /\ Fetch({Jump})
    /\ IF ~operand_ok THEN Abort ELSE Go(stack, incr_ip(operand))

StepJumpIfFalse ==
    /\ Fetch({JumpIfFalse})
    /\ IF stack = <<>> THEN Abort
       ELSE IF is_falsey(top.value)
            THEN IF ~operand_ok THEN Abort ELSE Go(pop(stack), incr_ip(operand))
            ELSE Go(pop(stack), incr_ip(SIZE_INSTRUCTION + SIZE_INDEX))

StepLoop ==
    /\ Fetch({Loop})
    /\ IF ~operand_ok THEN Abort ELSE Go(stack, set_ip(operand))

StepNot ==
    /\ Fetch({Not})
    /\ IF stack = <<>> THEN Abort
       ELSE Go(Append(pop(stack), new(new_from_bool(is_falsey(top.value)))),
               incr_ip(SIZE_INSTRUCTION))

StepNeg ==
    /\ Fetch({Neg})
    /\ IF stack = <<>> THEN Abort
       ELSE IF top.value.t = "Integer"
            THEN Go(Append(pop(stack), new(Value_Integer(0 - top.value.v))),
                    incr_ip(SIZE_INSTRUCTION))
            ELSE Fail("InvalidOperand")

StepLogicOp ==
    /\ Fetch({And, Or, Equal, NotEqual, Less, LessEqual, Greater, GreaterEqual})
    /\ IF Len(stack) < 2 THEN Abort
       ELSE LET rhs == top
                lhs == stack[Len(stack) - 1]
            IN  Go(Append(pop(pop(stack)), new(logic_op(chunk.data[ip + 1], lhs, rhs))),
                   incr_ip(SIZE_INSTRUCTION))

StepBinaryOp ==
    /\ Fetch({Add, Sub, Mul, Div})
    /\ IF Len(stack) < 2 THEN Abort
       ELSE LET rhs == top
                lhs == stack[Len(stack) - 1]
                res == binary_op(chunk.data[ip + 1], lhs, rhs)
            IN  CASE res.r = "ok" ->
                        Go(Append(pop(pop(stack)), new(res.value)),
                           incr_ip(SIZE_INSTRUCTION))
                  [] res.r = "err" -> Fail("InvalidOperand")
                  [] OTHER -> Abort

\* the frame ran off the end of its chunk
FrameEnd ==
    /\ state = "running"
    /\ frames # <<>>
    /\ ip >= Len(chunk.data)
    /\ ReturnToInterpret(IF stack = <<>> THEN new_none ELSE top,
                         IF stack = <<>> THEN stack ELSE pop(stack))
    /\ UNCHANGED log
    /\ Env

\* Vm::interpret once no frame is left: the result and tear_down
InterpretReturn ==
    /\ state = "running"
    /\ frames = <<>>
    /\ result' = ResultOk(IF stack = <<>> THEN Value_None ELSE top.value)
    /\ stack' = <<>>
    /\ frames' = <<>>
    /\ state' = "returned"
    /\ UNCHANGED <<globals, log, stdout>>
    /\ Env

Next ==
    \/ Run
    \/ StepNop
    \/ StepNone
    \/ StepTrue
    \/ StepFalse
    \/ StepConst
    \/ StepPop
    \/ StepGetGlobal
    \/ StepSetGlobal
    \/ StepGetLocal
    \/ StepSetLocal
    \/ StepCall
    \/ StepReturn
    \/ StepJump
    \/ StepJumpIfFalse
    \/ StepLoop
    \/ StepNot
    \/ StepNeg
    \/ StepLogicOp
    \/ StepBinaryOp
    \/ FrameEnd
    \/ InterpretReturn

Spec == Init /\ [][Next]_vars

\* the same interpreter started with the builtins in globals
SpecNative == InitNative /\ [][Next]_vars

(***************************************************************************)
(* The read-eval-print loop (main.rs).  A line of standard input is its    *)
(* text and whether it ends in a backslash before the newline; the text is *)
(* "quit", "" (a blank line) or the name of a program of Programs, standing *)
(* for that program's source text.  An empty stdin is end of input:        *)
(* read_line returns Ok(0).                                                *)
(***************************************************************************)
\* read_source: the lines up to the first one that is not continued, or up to
\* end of input, joined and trimmed; and what is left of the input
read_source(input) ==
    LET RECURSIVE read_lines(_, _)
        read_lines(in, source) ==
            IF in = <<>> THEN [source |-> source, rest |-> in]
            ELSE IF Head(in).continued
                 THEN read_lines(Tail(in), Append(source, Head(in).text))
                 ELSE [source |-> Append(source, Head(in).text), rest |-> Tail(in)]
        RECURSIVE trim_start(_)
        trim_start(src) ==
            IF src # <<>> /\ Head(src) = "" THEN trim_start(Tail(src)) ELSE src
        RECURSIVE trim_end(_)
        trim_end(src) ==
            IF src # <<>> /\ src[Len(src)] = ""
            THEN trim_end(SubSeq(src, 1, Len(src) - 1)) ELSE src
        read == read_lines(input, <<>>)
    IN  [source |-> trim_end(trim_start(read.source)), rest |-> read.rest]

\* one iteration of the loop of repl: prompt, read_source, the comparison with
\* "quit", Interpreter::run on anything else
repl ==
    /\ state \in {"ready", "returned"}
    /\ LET read == read_source(stdin)
           \* the statements the lexer and parser make of the source lines
           RECURSIVE parse(_)
           parse(src) ==
               IF src = <<>> THEN <<>>
               ELSE (IF Head(src) = "quit" THEN <<Variable("quit")>>
                     ELSE IF Head(src) = "" THEN <<>>
                     ELSE Programs[Head(src)]) \o parse(Tail(src))
       IN  /\ stdin' = read.rest
           /\ IF read.source = <<"quit">>
              THEN /\ state' = "exited"
                   /\ UNCHANGED <<globals, stack, frames, result, log>>
              ELSE run(parse(read.source))
    /\ UNCHANGED <<session, run_idx, iter_order, stdout, call>>

\* repl starts on a new interpreter; standard input holds one program, or
\* one of a few longer inputs, and then ends
InitRepl ==
    /\ globals = SymbolTable_new
    /\ stack = <<>>
    /\ frames = <<>>
    /\ state = "ready"
    /\ result = NoResult
    /\ log = <<>>
    /\ session = <<>>
    /\ run_idx = 0
    /\ iter_order \in {"asc", "desc"}
    /\ stdout = <<>>
    /\ call = NoCall
    /\ LET line(text) == [text |-> text, continued |-> FALSE]
           more(text) == [text |-> text, continued |-> TRUE]
       IN  stdin \in {<<line(p)>> : p \in ProgramIds} \cup
                     {<<>>,
                      <<line("quit")>>,
                      <<line("set_x"), line("read_x"), line("quit")>>,
                      <<line(""), line("quit"), line("set_x")>>,
                      <<more("set_x"), line("read_x")>>,
                      <<more("quit")>>,
                      <<more("quit"), line("")>>,
                      <<more("quit"), line("read_x"), line("quit")>>,
                      <<more(""), more("set_x")>>}

\* a step of Vm::interpret
VmStep ==
    \/ StepNop
    \/ StepNone
    \/ StepTrue
    \/ StepFalse
    \/ StepConst
    \/ StepPop
    \/ StepGetGlobal
    \/ StepSetGlobal
    \/ StepGetLocal
    \/ StepSetLocal
    \/ StepCall
    \/ StepReturn
    \/ StepJump
    \/ StepJumpIfFalse
    \/ StepLoop
    \/ StepNot
    \/ StepNeg
    \/ StepLogicOp
    \/ StepBinaryOp
    \/ FrameEnd
    \/ InterpretReturn

\* The process is single-threaded and runs on as long as it has a step to
\* take: weak fairness of the VM's steps and of repl.  repl is enabled exactly
\* when the loop is at its head (state "ready" or "returned"), and a repl step
\* always changes stdin or state, so its weak fairness is written out with
\* that enabling condition.
SpecRepl ==
    /\ InitRepl
    /\ [][repl \/ VmStep]_vars
    /\ WF_vars(VmStep)
    /\ ([]<>(state \notin {"ready", "returned"}) \/ []<><<repl>>_vars)

(***************************************************************************)
(* SymbolTable driven directly (symbol_table.rs): insert applied to names  *)
(* and optional objects drawn from small sets.                             *)
(***************************************************************************)
\* SymbolTable::new
InitTable ==
    /\ globals = SymbolTable_new
    /\ stack = <<>>
    /\ frames = <<>>
    /\ state = "ready"
    /\ result = NoResult
    /\ log = <<>>
    /\ session = <<>>
    /\ run_idx = 0
    /\ iter_order \in {"asc", "desc"}
    /\ stdout = <<>>
    /\ call = NoCall
    /\ stdin = <<>>

\* one call of SymbolTable::insert
InsertCall ==
    /\ globals.last_idx < MaxInserts
    /\ \E name \in {"x", "y"},
          obj \in {NoObject, new_none, new_with_id(7, "y", Value_True)} :
          /\ globals' = insert(globals, name, obj)
          /\ call' = [op |-> "insert", name |-> name, obj |-> obj,
                      ret |-> globals'.last_idx]
    /\ UNCHANGED <<stack, frames, state, result, log, session, run_idx,
                   iter_order, stdout, stdin>>

SpecTable == InitTable /\ [][InsertCall]_vars

(***************************************************************************)
(* Properties.                                                             *)
(***************************************************************************)
\* the program of the current (or last) run
prog == session[run_idx]
Started == run_idx >= 1
Returned(p) == Started /\ prog = p /\ state = "returned"
ResultInt(n) == ResultOk(Value_Integer(n))

\* the instruction the VM is about to execute is op
AtOp(op) ==
    /\ state = "running"
    /\ frames # <<>>
    /\ ip < Len(chunk.data)
    /\ chunk.data[ip + 1] = op
    /\ Len(log) < MaxSteps

\* the names of the functions <main> has entered so far, in order
IsEntry(e) == e.ip = 0 /\ e.depth = 2
Calls == [i \in 1..Len(SelectSeq(log, IsEntry)) |-> SelectSeq(log, IsEntry)[i].fn]
IsPrefix(s, t) == Len(s) <= Len(t) /\ s = SubSeq(t, 1, Len(s))

\* C1: run returns the value of the final expression, and None when the
\* program ends with a non-expression (an assignment or a while loop), even
\* if an earlier top-level statement was a bare expression.
C1_FinalExpressionOrNone ==
    /\ Returned("arith") => result = ResultInt(7)
    /\ Returned("assign") => result = ResultInt(15)
    /\ Returned("only_assign") => result = ResultOk(Value_None)
    /\ Returned("expr_then_assign") => result = ResultOk(Value_None)
    /\ Returned("expr_then_while") => result = ResultOk(Value_None)

\* C2: Call(arity) on a user function records as the callee's stack_size the
\* height of the value stack before the arguments and the callable were
\* pushed and adds one frame; the matching Return removes that frame and
\* leaves the stack exactly one element, the returned value, above that
\* height.
C2_CallReturnBalanced ==
    [][/\ (AtOp(Call) /\ state' = "running") =>
            /\ Len(frames') = Len(frames) + 1
            /\ frames'[Len(frames')].stack_size = Len(stack) - 1 - operand
            /\ Len(stack') = Len(stack) - 1
       /\ (AtOp(Return) /\ state' = "running") =>
            /\ Len(frames') = Len(frames) - 1
            /\ Len(stack') = current_frame.stack_size + 1
            /\ stack'[Len(stack')] = top]_vars

\* a callee called with one argument below a pending operand of the caller
\* has just returned
C2_Witness ==
    /\ Started /\ prog = "one_plus_double" /\ state = "running"
    /\ Len(frames) = 1
    /\ log # <<>> /\ log[Len(log)].op = Return /\ log[Len(log)].depth = 2
    /\ Len(stack) = 2

\* C3: f(a0, ..., a(n-1)) binds parameter p_i to a_i, for n >= 2 too:
\* sub(5, 3) with sub(a, b) = a - b is 2, and double(10) is 20.
C3_ArgumentsInSourceOrder ==
    /\ Returned("double") => result = ResultInt(20)
    /\ Returned("sub") => result = ResultInt(2)

\* C4: GetLocal(k) in a frame reads the value stack at frame.stack_size + k.
C4_LocalsAreFrameRelative ==
    [][(AtOp(GetLocal) /\ state' = "running") =>
            stack'[Len(stack')] = stack[current_frame.stack_size + operand + 1]]_vars

\* C5: f(2), with f(n) returning 0 at n <= 0 and f(n - 1) otherwise, needs
\* the frames of <main>, f(2), f(1) and f(0) and no more, and returns 0 to
\* the top level.
C5_RecursionReturns ==
    (Started /\ prog = "recurse") =>
        /\ Len(frames) <= 4
        /\ state = "returned" => result = ResultInt(0)

\* C6: inside a named function a read of a global variable or of a function
\* defined earlier compiles to GetGlobal, so the program runs to its value.
C6_GlobalReadInFunction ==
    /\ Returned("read_global_in_fn") => result = ResultInt(5)
    /\ Returned("call_earlier_fn") => result = ResultInt(1)

\* C7: an assignment to an existing global inside a named function, as inside
\* a nested block of <main>, changes the global.
C7_GlobalWriteInFunction ==
    /\ Returned("write_global_in_block") => result = ResultInt(2)
    /\ Returned("write_global_in_fn") => result = ResultInt(2)

\* what an if/elif/elif/else must call, in order, for the truthiness of its
\* three conditions: the conditions up to the first truthy one, then the one
\* body taken
IfExpected(t) ==
    IF t[1] = 1 THEN <<"c1", "b1">>
    ELSE IF t[2] = 1 THEN <<"c1", "c2", "b2">>
    ELSE IF t[3] = 1 THEN <<"c1", "c2", "c3", "b3">>
    ELSE <<"c1", "c2", "c3", "b4">>

\* C8: an if/elif/else evaluates its conditions in source order up to and
\* including the first truthy one and executes exactly one body, that
\* condition's (the else body when none is truthy); no later condition and
\* no other body is executed.
C8_ExactlyOneBranch ==
    (Started /\ prog \in DOMAIN IfCases) =>
        /\ state # "aborted"
        /\ IsPrefix(Calls, IfExpected(IfCases[prog]))
        /\ state = "returned" =>
            /\ Calls = IfExpected(IfCases[prog])
            /\ result.kind = "Ok"
            /\ "b" \o ToString(result.value.v) = Calls[Len(Calls)]

\* the second condition was the first truthy one, its body ran, the run is over
C8_Witness ==
    /\ Returned("if010")
    /\ Calls = <<"c1", "c2", "b2">>

RECURSIVE Repeat(_, _)
Repeat(s, n) == IF n = 0 THEN <<>> ELSE s \o Repeat(s, n - 1)

Count(Test(_)) == Len(SelectSeq(log, Test))

\* C9: a while loop that exits through its condition evaluates the condition
\* once per iteration of the body and once more to exit (once, with no
\* iteration, when it is falsey at first).
C9_ConditionOncePerIteration ==
    /\ (Started /\ prog \in DOMAIN WhileCases) =>
        /\ state # "aborted"
        /\ IsPrefix(Calls, Repeat(<<"c", "b">>, WhileCases[prog]) \o <<"c">>)
        /\ state = "returned" =>
            /\ Calls = Repeat(<<"c", "b">>, WhileCases[prog]) \o <<"c">>
            /\ result = ResultInt(WhileCases[prog])
    /\ (Started /\ prog = "while_in_fn") =>
        LET IsCond(e) == e.fn = "f" /\ e.op = Less
            IsBody(e) == e.fn = "f" /\ e.op = Add
        IN  /\ state # "aborted"
            /\ Count(IsCond) \in {Count(IsBody), Count(IsBody) + 1}
            /\ state = "returned" =>
                /\ Count(IsBody) = 2
                /\ Count(IsCond) = 3

\* a loop of two iterations has exited
C9_Witness ==
    /\ Returned("while2")
    /\ Calls = <<"c", "b", "c", "b", "c">>

\* C10: a break leaves its nearest enclosing while for the first instruction
\* after that loop's Loop instruction: the code that follows the inner loop
\* runs next (not the inner condition again, not the rest of the inner body,
\* not the exit of the outer loop), and a break under nested ifs after an
\* inner loop leaves the outer loop.
C10_BreakExitsNearestLoop ==
    /\ (Started /\ prog = "break_inner") =>
        /\ state # "aborted"
        /\ IsPrefix(Calls, <<"c", "t", "k", "after", "c", "t", "k", "after", "c">>)
        /\ state = "returned" =>
            /\ Calls = <<"c", "t", "k", "after", "c", "t", "k", "after", "c">>
            /\ result = ResultInt(2)
    /\ (Started /\ prog = "break_outer") =>
        /\ state # "aborted"
        /\ IsPrefix(Calls, <<"t", "c", "c", "k", "k2", "after">>)
        /\ state = "returned" =>
            /\ Calls = <<"t", "c", "c", "k", "k2", "after">>
            /\ result = ResultInt(8)
    /\ (Started /\ prog = "break_before_inner") =>
        /\ state # "aborted"
        /\ IsPrefix(Calls, <<"t", "c", "c", "mid", "t", "after">>)
        /\ state = "returned" =>
            /\ Calls = <<"t", "c", "c", "mid", "t", "after">>
            /\ result = ResultInt(8)
    /\ (Started /\ prog = "break_test") =>
        /\ state # "aborted"
        /\ state = "returned" => result = ResultInt(2)

\* the break of the inner loop has been taken and the statement after the
\* inner loop has run
C10_Witness ==
    /\ Started /\ prog = "break_inner" /\ state = "running"
    /\ Calls = <<"c", "t", "k", "after">>

\* C11: a continue goes back to the first instruction of the condition of its
\* nearest enclosing while: the condition of that loop is what runs next (not
\* the rest of the body, not the condition of another loop), and after an
\* inner loop has been compiled a continue of the outer body goes to the
\* outer loop's condition.
C11_ContinueToNearestStart ==
    /\ (Started /\ prog = "continue_outer") =>
        /\ state # "aborted"
        /\ IsPrefix(Calls, <<"c", "f0", "t", "c", "f0", "t", "c", "after">>)
        /\ state = "returned" =>
            /\ Calls = <<"c", "f0", "t", "c", "f0", "t", "c", "after">>
            /\ result = ResultInt(8)
    /\ (Started /\ prog = "continue_inner") =>
        LET IsInnerCond(e) == e.fn = GLOBAL_SCOPE /\ e.op = Less
        IN  /\ state # "aborted"
            /\ IsPrefix(Calls, <<"c", "t", "t", "mid", "c", "after">>)
            /\ Count(IsInnerCond) <= 3
            /\ state = "returned" =>
                /\ Calls = <<"c", "t", "t", "mid", "c", "after">>
                /\ Count(IsInnerCond) = 3
                /\ result = ResultInt(8)
    /\ (Started /\ prog = "continue_test") =>
        /\ state # "aborted"
        /\ state = "returned" => result = ResultInt(20)
    /\ \A i \in 1..Len(log) - 1 :
        (log[i].op = Loop /\ log[i + 1].fn = log[i].fn
            /\ log[i + 1].depth = log[i].depth) => log[i + 1].ip < log[i].ip

\* the continue of the outer body has been taken after the inner loop was
\* skipped, and the outer condition is being evaluated again
C11_Witness ==
    /\ Started /\ prog = "continue_outer" /\ state = "running"
    /\ Calls = <<"c", "f0", "t", "c">>

\* C12: right after Interpreter::new, globals holds entries named print and
\* abs whose values are NativeFunction, and a first program abs(-3) compiles
\* and returns Integer(3).
C12_BuiltinsAtStartup ==
    /\ run_idx = 0 =>
        \A name \in {"print", "abs"} :
            \E id \in DOMAIN globals.data :
                /\ globals.data[id].name = name
                /\ globals.data[id].value.t = "NativeFunction"
    /\ Returned("abs_neg3") => result = ResultInt(3)

C14_GlobalReadNeedsName ==
    /\ \A program \in {"undefined_name", "undefined_after"} :
            Returned(program) =>
                /\ result.kind = "CompilerError"
                /\ result.err = "NameNotFound"
                /\ result.msg = "Name y not found"
                /\ log = <<>>
    /\ Returned("two_globals") => result = ResultInt(4)
    /\ \A identifier \in {"x", "y", "f", "abs"} :
        LET c == Compiler_new(globals, iter_order)
            r == emit_variable_op(c, identifier)
        IN  IF contains_name(globals, identifier)
            THEN /\ IsOk(r)
                 /\ r.globals = globals
                 /\ \E id \in DOMAIN globals.data :
                        /\ globals.data[id].name = identifier
                        /\ r.function.chunk.data = <<GetGlobal>> \o to_ne_bytes(id)
            ELSE /\ r.err = NameNotFound("Name " \o identifier \o " not found")
                 /\ r.function = c.function
                 /\ r.globals = globals

\* the read of y was rejected after x had been declared by the same compile
C14_Witness ==
    /\ Returned("undefined_after")
    /\ result.err = "NameNotFound"
    /\ contains_name(globals, "x") /\ ~contains_name(globals, "y")

\* C15: compiling a continue while no while loop is being compiled, also
\* after an earlier loop has been compiled (at top level or in a function),
\* fails with InvalidExpression("continue without loop"): the program is
\* not run.
C15_ContinueWithoutLoop ==
    /\ \A program \in {"continue_no_loop", "continue_after_loop",
                       "continue_in_fn_after_loop"} :
            (Started /\ prog = program) =>
                /\ state = "returned"
                /\ result.kind = "CompilerError"
                /\ result.err = "InvalidExpression"
                /\ result.msg = "continue without loop"
    /\ LET c == Compiler_new(globals, iter_order)
       IN  emit_continue_statement(c).err = InvalidExpression("continue without loop")

\* the continue that follows a compiled loop has been rejected
C15_Witness ==
    /\ Returned("continue_after_loop")
    /\ result.msg = "continue without loop"
    /\ contains_name(globals, "x")

\* C16: compiling an Assignment whose left-hand side is not a Variable fails
\* with InvalidExpression("Assignment must set a variable").
C16_AssignmentNeedsVariable ==
    \A program \in {"assign_to_literal", "assign_to_binary"} :
        (Started /\ prog = program) =>
            /\ state = "returned"
            /\ result.kind = "CompilerError"
            /\ result.msg = "Assignment must set a variable"
            /\ result.err = "InvalidExpression"

\* the value of the global the callable on top of the stack resolves to
Callee == st_get(globals, get_index(globals, top.name, iter_order)).value

C18_CallOfNonFunction ==
    /\ [](\A program \in {"call_integer", "call_none", "call_string"} :
            (Started /\ prog = program) =>
                /\ state # "aborted"
                /\ state = "returned" => result = ResultVmError("InvalidOperand"))
    /\ [][(/\ AtOp(Call) /\ stack # <<>> /\ contains_name(globals, top.name)
           /\ Callee.t \notin {"Function", "NativeFunction"}) =>
                /\ state' = "returned"
                /\ result' = ResultVmError("InvalidOperand")
                /\ frames' = <<>>
                /\ stdout' = stdout]_vars

\* x, which holds the None that n() returned, was called below a pending
\* operand, and the run ended with the error
C18_Witness ==
    /\ Returned("call_none")
    /\ result = ResultVmError("InvalidOperand")
    /\ \E id \in DOMAIN globals.data :
            globals.data[id].name = "x" /\ globals.data[id].value = Value_None
    /\ log # <<>> /\ log[Len(log)].op = Call /\ log[Len(log)].depth = 1

\* C19: Add, Sub, Mul or Div of two operands that are neither both Integer
\* nor, for Add alone, both String (Integer with String, two Strings under
\* Sub, an operand that is None, True, False or a Function) ends the run
\* with VmError::InvalidOperand and pushes nothing.  (The values of the
\* model are None, True, False, Integer, String, Function, NativeFunction.)
C19_ArithmeticTypeError ==
    /\ [](/\ \A program \in {"add_int_str", "add_str_int", "sub_str_str",
                              "add_none_int", "mul_int_true", "div_false_int",
                              "add_fn_int"} :
                (Started /\ prog = program) =>
                    /\ state # "aborted"
                    /\ state = "returned" => result = ResultVmError("InvalidOperand")
          /\ Returned("add_str_str") => result = ResultOk(Value_String("ab"))
          /\ Returned("div_sub") => result = ResultInt(2))
    /\ [][(/\ AtOp(Add) \/ AtOp(Sub) \/ AtOp(Mul) \/ AtOp(Div)
           /\ Len(stack) >= 2
           /\ ~(stack[Len(stack) - 1].value.t = "Integer" /\ top.value.t = "Integer")
           /\ ~(/\ AtOp(Add)
                /\ stack[Len(stack) - 1].value.t = "String"
                /\ top.value.t = "String")) =>
                /\ state' = "returned"
                /\ result' = ResultVmError("InvalidOperand")
                /\ stack' = <<>>]_vars

\* None + 1 was evaluated above the pending operand 4 and ended the run
C19_Witness ==
    /\ Returned("add_none_int")
    /\ result = ResultVmError("InvalidOperand")
    /\ log # <<>> /\ log[Len(log)].op = Add /\ log[Len(log)].ip = 19


\* a callee frame whose ip has reached the end of its chunk
CalleeAtChunkEnd ==
    /\ state = "running"
    /\ Len(frames) >= 2
    /\ ip >= Len(chunk.data)

\* the chunk of the named function the session has installed as name
InstalledChunk(name) ==
    st_get(globals, get_index(globals, name, iter_order)).value.v.chunk

\* C20 (as stated): <main>'s chunk ends with Nop, and every execution path
\* through a named function's chunk ends in a Return instruction, so no
\* callee frame ever runs off the end of its chunk
C20_FunctionsEndInReturn ==
    /\ (state = "running" /\ frames # <<>>) =>
          LET data == frames[1].function.chunk.data
          IN  data # <<>> /\ data[Len(data)] = Nop
    /\ ~CalleeAtChunkEnd

\* C20 (amended): <main>'s chunk ends with Nop; the compiler emits Return
\* only where the body has a return statement and appends none, so the chunk
\* of `def test(): True` is the single True instruction; a callee frame that
\* reaches the end of its chunk is released as Return releases it, the top of
\* the stack (None when the stack is empty) being the call's value
C20_ReturnOnlyWhereWritten ==
    /\ [](/\ (state = "running" /\ frames # <<>>) =>
                LET data == frames[1].function.chunk.data
                IN  data # <<>> /\ data[Len(data)] = Nop
          /\ (Started /\ prog = "no_return" /\ state = "running"
                /\ contains_name(globals, "test")) =>
                InstalledChunk("test").data = <<True>>
          /\ (Started /\ prog = "two_six" /\ state = "running"
                /\ contains_name(globals, "six")) =>
                LET data == InstalledChunk("six").data
                IN  /\ Len(data) = 2 * SIZE_INSTRUCTION + SIZE_INDEX
                    /\ data[1] = Const
                    /\ data[Len(data)] = Return
          /\ Returned("no_return") => result = ResultOk(Value_True)
          /\ Returned("fn_ends_in_assignment") => result = ResultOk(Value_None)
          /\ Returned("fn_returns_on_one_path") => result = ResultOk(Value_None))
    /\ [][CalleeAtChunkEnd =>
            /\ state' = "running"
            /\ frames' = pop(frames)
            /\ stack' = Append(resize(IF stack = <<>> THEN stack ELSE pop(stack),
                                      current_frame.stack_size),
                               IF stack = <<>> THEN new_none ELSE top)]_vars

\* `def test(): True` has been called and its frame stands at the end of its
\* one-instruction chunk with True on the stack
C20_Witness ==
    /\ Started
    /\ prog = "no_return"
    /\ CalleeAtChunkEnd
    /\ chunk.data = <<True>>
    /\ stack # <<>>
    /\ top = new_true

\* C21: insert(name, obj) increments last_idx, returns the new last_idx, and
\* stores under that id an object whose id is the returned id and whose name
\* is the requested name, whether obj is absent or supplied
C21_InsertContract ==
    /\ [](call.op = "insert" =>
            /\ call.ret = globals.last_idx
            /\ st_contains(globals, call.ret)
            /\ st_get(globals, call.ret).id = call.ret
            /\ st_get(globals, call.ret).name = call.name
            /\ (call.obj = NoObject => st_get(globals, call.ret).value = Value_None)
            /\ (call.obj # NoObject =>
                  st_get(globals, call.ret).value = call.obj.value))
    /\ [][globals'.last_idx = globals.last_idx + 1]_vars

\* the names the globals table holds
GlobalNames == {globals.data[i].name : i \in DOMAIN globals.data}

\* C22: every global keeps a stable id: at most one entry carries a given
\* name, get_index(name) does not depend on the iteration order of the table,
\* and no step changes the id a name resolves to
C22_StableGlobalIds ==
    /\ [](\A name \in GlobalNames :
            /\ Cardinality(ids_named(globals, name)) <= 1
            /\ get_index(globals, name, "asc") = get_index(globals, name, "desc"))
    /\ [][\A name \in GlobalNames :
            get_index(globals', name, iter_order) = get_index(globals, name, iter_order)]_vars

\* C23: started with a PATH (one program run by exec), the process exits with
\* 0 when the run succeeds and with a non-zero code when the run ends in a
\* compiler or VM error
C23_ExitCode ==
    (Started /\ Len(session) = 1 /\ state = "returned") =>
        /\ (result.kind = "Ok" => main(result) = 0)
        /\ (result.kind \in {"CompilerError", "VmError"} => main(result) # 0)

\* the run of program p has ended, by a result or by a panic
Ended(p) == Started /\ prog = p /\ state \in {"returned", "aborted"}

\* C24: a call of a zero-argument function whose body has no return
\* statement yields the value of the body's last expression statement, be it
\* a literal, a binary expression, a global read or a call, and the caller
\* goes on
C24_LastExpressionIsResult ==
    /\ Ended("no_return") => result = ResultOk(Value_True)
    /\ Ended("fn_binary") => result = ResultInt(12)
    /\ Ended("fn_literal") => result = ResultInt(5)
    /\ Ended("fn_global_read") => result = ResultInt(5)
    /\ Ended("fn_call") => result = ResultInt(6)

\* C25: whatever functions with parameters were compiled before a def, its
\* k-th parameter is local slot k, and a parameter name of an earlier function
\* does not resolve as a local in a later one
C25_ParametersAtSlotZero ==
    /\ (Started /\ prog = "two_param_fns" /\ state = "running") =>
          /\ InstalledChunk("a").data = <<GetLocal>> \o to_ne_bytes(0) \o <<Return>>
          /\ InstalledChunk("b").data = <<GetLocal>> \o to_ne_bytes(0) \o <<Return>>
    /\ Ended("two_param_fns") => result = ResultInt(7)
    /\ Ended("leaked_param") =>
          /\ result.kind = "CompilerError"
          /\ result.err = "NameNotFound"

\* <main> of program p stands at its closing Nop
AtClosingNop(p) ==
    /\ Started
    /\ prog = p
    /\ state = "running"
    /\ Len(frames) = 1
    /\ ip = Len(chunk.data) - SIZE_INSTRUCTION

\* C26: a block whose statements all assign names local to it leaves the
\* value stack as high as it found it (here: empty), also when a local is
\* assigned twice and when the block is the body of a loop
C26_ScopeExitBalanced ==
    /\ AtClosingNop("local_once") => stack = <<>>
    /\ AtClosingNop("local_in_loop") => Len(stack) = 1
    /\ AtClosingNop("local_twice") => stack = <<>>
    /\ AtClosingNop("local_twice_in_loop") => stack = <<>>

\* C27: Div with Integer operands and divisor 0 makes run return a VmError;
\* the process does not abort and no value is returned
C27_DivisionByZeroIsAnError ==
    \A p \in {"div_zero", "div_zero_global"} :
        Ended(p) => (state = "returned" /\ result.kind = "VmError")

\* C28: globals live as long as the Interpreter: in a session whose first run
\* assigns x = 7 and whose last run reads x, the last run returns 7 and x
\* keeps id 1 throughout, also when a run in between ended with a compiler
\* error or a VM error; every run starts with an empty value stack and, once
\* compiled, a single frame at ip 0
C28_GlobalsOutliveRuns ==
    /\ []((Started /\ session[1] = "set_x") =>
            /\ ids_named(globals, "x") = {1}
            /\ (run_idx = 2 /\ prog = "undefined_name" /\ state = "returned") =>
                  result.kind = "CompilerError"
            /\ (run_idx = 2 /\ prog = "add_int_str" /\ state = "returned") =>
                  result.kind = "VmError"
            /\ (run_idx >= 2 /\ prog = "read_x" /\ state = "returned") =>
                  result = ResultInt(7))
    /\ [][run_idx' # run_idx =>
            /\ stack' = <<>>
            /\ state' = "running" =>
                  frames' = <<[function |-> frames'[1].function,
                               stack_size |-> 0, ip |-> 0]>>]_vars

\* x = 7 ran, then a run failed in the VM, then the third run read x and
\* returned 7
C28_Witness ==
    /\ session = <<"set_x", "add_int_str", "read_x">>
    /\ run_idx = 3
    /\ state = "returned"
    /\ result = ResultInt(7)
    /\ st_get(globals, 1).name = "x"

\* the opcodes followed by an 8-byte operand
OperandOps ==
    {Const, SetGlobal, GetGlobal, SetLocal, GetLocal, Call, Jump, JumpIfFalse, Loop}

\* the addresses at which the instructions of data start, decoding from at
RECURSIVE InstructionStartsFrom(_, _)
InstructionStartsFrom(data, at) ==
    IF at >= Len(data) THEN {}
    ELSE {at} \cup InstructionStartsFrom(
                      data,
                      at + SIZE_INSTRUCTION
                         + (IF data[at + 1] \in OperandOps THEN SIZE_INDEX ELSE 0))

InstructionStarts(data) == InstructionStartsFrom(data, 0)

\* the VM is about to take the jump of a Jump, or of a JumpIfFalse whose
\* condition is falsey
TakesJump ==
    \/ AtOp(Jump)
    \/ AtOp(JumpIfFalse) /\ stack # <<>> /\ is_falsey(top.value)

\* at a Jump or JumpIfFalse, for every forward target, the operand
\* patch_jump_addr writes makes the VM's ip + operand the target
PatchAgrees ==
    (AtOp(Jump) \/ AtOp(JumpIfFalse)) =>
        \A target \in (ip + SIZE_INSTRUCTION + SIZE_INDEX)..Len(chunk.data) :
            ip + get_data_u64(patch_jump_addr(chunk, ip + SIZE_INSTRUCTION, target),
                              ip + SIZE_INSTRUCTION) = target

\* a jump taken moves the ip of the current frame by its operand
JumpMoves ==
    TakesJump =>
        /\ state' = "running"
        /\ Len(frames') = Len(frames)
        /\ frames'[Len(frames)].ip = ip + operand

\* C29 (as stated): back-patching and the VM's ip arithmetic agree, and every
\* jump taken lands on the start of an instruction of the same chunk
C29_JumpsLandOnInstructions ==
    /\ [](/\ PatchAgrees
          /\ TakesJump =>
                (operand_ok /\ ip + operand \in InstructionStarts(chunk.data)))
    /\ [][JumpMoves]_vars

\* C29 (amended): back-patching and the VM's ip arithmetic agree, and every
\* jump taken lands on an instruction boundary of the same chunk: the start
\* of an instruction, or the end of the chunk when nothing was emitted after
\* the jump's construct (an if or while that ends a named function's body)
C29_JumpsLandOnBoundaries ==
    /\ [](/\ PatchAgrees
          /\ TakesJump =>
                (operand_ok /\ ip + operand \in InstructionStarts(chunk.data)
                                             \cup {Len(chunk.data)}))
    /\ [][JumpMoves]_vars

\* the JumpIfFalse of `while False: True`, the last statement of f, is about
\* to jump to the end of f's chunk
C29_Witness ==
    /\ Started
    /\ prog = "fn_while_last"
    /\ Len(frames) = 2
    /\ AtOp(JumpIfFalse)
    /\ TakesJump
    /\ ip + operand = Len(chunk.data)

\* C30: a callable that is not bound to a global name (a literal, the result
\* of an expression, a value held in a parameter) makes Call end the run with
\* a VmError; the interpreter never aborts
C30_UnboundCallableIsAnError ==
    \A p \in {"call_literal", "call_expression", "call_param"} :
        Ended(p) => (state = "returned" /\ result.kind = "VmError")

\* the current frame is about to be released, by Return or by its ip having
\* reached the end of its chunk
Releasing ==
    /\ state = "running"
    /\ frames # <<>>
    /\ (AtOp(Return) \/ ip >= Len(chunk.data))

C32_EmitIndexRoundTrip ==
    (state = "running" /\ frames # <<>>) =>
        \A v \in {0, 1, 255, 256, 65535, 16777216} :
            LET addr == size(chunk)
                emitted == emit_index(chunk, v)
            IN  /\ size(emitted) = addr + SIZE_INDEX
                /\ SubSeq(emitted.data, 1, addr) = chunk.data
                /\ get_data_u64_ok(emitted, addr)
                /\ get_data_u64(emitted, addr) = v

\* what `l() op r()` must yield for the truthiness of its operands
LogicExpected ==
    [and_00 |-> Value_False, and_07 |-> Value_False, and_50 |-> Value_False,
     and_57 |-> Value_True, or_00 |-> Value_False, or_07 |-> Value_True,
     or_50 |-> Value_True, or_57 |-> Value_True]

\* C33: And / Or are strict: both operands are executed, left then right,
\* whatever the left one yields, and the result is True or False computed
\* from the truthiness of both, never an operand
C33_AndOrStrict ==
    (Started /\ prog \in DOMAIN LogicExpected) =>
        /\ state # "aborted"
        /\ IsPrefix(Calls, <<"l", "r">>)
        /\ state = "returned" =>
            /\ Calls = <<"l", "r">>
            /\ result = ResultOk(LogicExpected[prog])

\* `0 and 7`: the left operand was falsey, yet r ran after l, and the run
\* returned False
C33_Witness ==
    /\ Returned("and_07")
    /\ Calls = <<"l", "r">>
    /\ result = ResultOk(Value_False)

\* the listing of the current chunk, cut after one iteration more than the
\* chunk has bytes: a loop that moves ip in every iteration is over by then
Listing == disassemble(chunk, Len(chunk.data) + 1)

\* C34: for every chunk the VM runs, the disassembler lists exactly one entry
\* per instruction, at the addresses at which the VM starts an instruction
\* (an operand-bearing opcode being 1 + 8 bytes), and never decodes an operand
\* byte as an opcode
C34_DisassemblerMatchesVm ==
    (state = "running" /\ frames # <<>>) =>
        /\ Len(Listing) = Cardinality(InstructionStarts(chunk.data))
        /\ {Listing[i].ip : i \in 1..Len(Listing)} = InstructionStarts(chunk.data)

\* C39: disassemble terminates for every chunk the VM runs: its loop is over
\* within as many iterations as the chunk has bytes, and the ips it lists are
\* strictly increasing
C39_DisassembleTerminates ==
    (state = "running" /\ frames # <<>>) =>
        /\ Len(Listing) <= Len(chunk.data)
        /\ \A i \in 1..Len(Listing) : Listing[i].next > Listing[i].ip
        /\ \A i, j \in 1..Len(Listing) : i < j => Listing[i].ip < Listing[j].ip

\* C35: once compile has returned Ok, no Jump or JumpIfFalse of a chunk the
\* VM runs carries the placeholder operand 0, and a jump never leaves ip
\* where it was (so a break outside any loop cannot make the run hang)
C35_NoPlaceholderLeft ==
    /\ [](state = "running" /\ frames # <<>> =>
            \A a \in InstructionStarts(chunk.data) :
                (chunk.data[a + 1] \in {Jump, JumpIfFalse}
                 /\ a + SIZE_INSTRUCTION + SIZE_INDEX <= Len(chunk.data)) =>
                    from_ne_bytes(SubSeq(chunk.data, a + 2, a + 9)) # 0)
    /\ [][TakesJump /\ state' = "running" =>
            frames'[Len(frames')].ip # ip]_vars

\* C36: a callee frame with stack_size s neither reads (GetLocal) nor
\* overwrites (SetLocal, or any step that keeps the frame) a value-stack
\* position below s, so the caller's pending operand survives the call:
\* `5 + f()` with f assigning a local and returning 2 yields 7
C36_FrameIsolation ==
    /\ []((AtOp(GetLocal) \/ AtOp(SetLocal)) /\ operand_ok =>
            local_index(current_frame, operand) >= current_frame.stack_size)
    /\ [](Ended("pending_plus_local_return") => result = ResultInt(7))
    /\ [][(state = "running" /\ Len(frames) >= 2 /\ state' = "running"
            /\ Len(frames') >= Len(frames)) =>
              SubSeq(stack', 1, current_frame.stack_size)
                = SubSeq(stack, 1, current_frame.stack_size)]_vars

\* C37: once interpret has returned, with a value or with a VmError raised
\* at any depth of nested calls, the value stack and the frame list are
\* empty, and the next interpret starts with one frame at ip 0
C37_CleanAfterInterpret ==
    /\ [](state = "returned" => (stack = <<>> /\ frames = <<>>))
    /\ [][(state = "returned" /\ state' = "running") =>
            /\ stack' = <<>>
            /\ Len(frames') = 1
            /\ frames'[1].ip = 0
            /\ frames'[1].stack_size = 0]_vars

\* a VmError raised three frames deep has been returned; stack and frames
\* are empty
C37_Witness ==
    /\ Returned("nested_error")
    /\ result.kind = "VmError"
    /\ \E i \in 1..Len(log) : log[i].depth = 3
    /\ stack = <<>>
    /\ frames = <<>>

\* C38: a run whose compile returns an error leaves the globals symbol
\* table exactly as it was before the compile started
C38_CompileErrorKeepsGlobals ==
    [][(run_idx' # run_idx /\ result'.kind = "CompilerError") =>
        globals' = globals]_vars

\* C40: once standard input is exhausted the REPL eventually exits, and a
\* source that reads "quit" makes it exit
C40_ReplTerminatesOnEof ==
    /\ [][(state \in {"ready", "returned"} /\ state' # state
            /\ read_source(stdin).source = <<"quit">>) => state' = "exited"]_vars
    /\ ((stdin = <<>> /\ state \in {"ready", "returned"}) ~> state = "exited")

====
